---- MODULE Spec2Model ----
(***************************************************************************)
(* A model of the whois lookup of forwardemail/tool-whois: whois() of      *)
(* src/src/index.ts (validation, routing, thin and thick RDAP fetch, the   *)
(* merge) and port43() of src/src/port43.ts (acquisition over a mirror, a  *)
(* third-party page or a raw socket, then the text extraction).            *)
(*                                                                         *)
(* Every lookup is one asynchronous call.  Its local variables are kept    *)
(* per lookup (functions over the set of running lookups), and one action  *)
(* is one run-to-completion segment of the call: from the resumption of an *)
(* await to the next await, or to the return or the throw.                 *)
(***************************************************************************)
EXTENDS Integers, Sequences, FiniteSets, TLC

VARIABLES
    api,            \* the exported function that was called: "whois" or "port43"
    input,          \* the first argument (origDomain / actor)
    options,        \* whois(): [thinOnly, server]
    pc,             \* where the call is suspended
    outcome,        \* "pending", "resolved" (a record was returned) or "rejected"
    domain,         \* whois(): let domain
    url,            \* whois(): let url
    response,       \* const response (whois() and port43() each build one)
    thinResponse,   \* whois(): let thinResponse
    thickResponse,  \* whois(): let thickResponse
    thickRdap,      \* whois(): const thickRdap
    registrars,     \* whois(): const registrars, the candidates pushed so far
    resellers,      \* whois(): const resellers
    whoisServer,    \* the descriptor determinePort43Domain() finds for the target
    port43response, \* port43(): let port43response
    socket,         \* port43(): the PromiseSocket: "none", "created", "ended", "destroyed"
    calls,          \* the collaborator operations issued so far, in order
    replies,        \* what kind of answer each of them got, in order
    failure         \* the message of the last transport failure observed

vars == <<api, input, options, pc, outcome, domain, url, response, thinResponse,
          thickResponse, thickRdap, registrars, resellers, whoisServer, port43response,
          socket, calls, replies, failure>>

-----------------------------------------------------------------------------
(* Strings.  A target string is a sequence of runs [ch, n]: n >= 1 copies  *)
(* of the character ch, adjacent runs holding different characters.  This  *)
(* keeps strings of 253 and 254 characters small.                          *)

\* index.ts:61, the longest accepted target
MaxDomainLength == 253

Whitespace == {" "}
Digits == {"1"}

LowerCh(c) ==
    CASE c = "A" -> "a"
      [] c = "I" -> "i"
      [] c = "S" -> "s"
      [] OTHER -> c

RECURSIVE StrLen(_)
StrLen(s) == IF s = <<>> THEN 0 ELSE Head(s).n + StrLen(Tail(s))

\* adjacent runs of one character are one run
RECURSIVE Canon(_)
Canon(s) ==
    IF Len(s) < 2 THEN s
    ELSE IF s[1].ch = s[2].ch
         THEN Canon(<<[ch |-> s[1].ch, n |-> s[1].n + s[2].n]>> \o SubSeq(s, 3, Len(s)))
         ELSE <<s[1]>> \o Canon(Tail(s))

RECURSIVE TrimStart(_)
TrimStart(s) ==
    IF s = <<>> THEN s
    ELSE IF Head(s).ch \in Whitespace THEN TrimStart(Tail(s)) ELSE s

RECURSIVE TrimEnd(_)
TrimEnd(s) ==
    IF s = <<>> THEN s
    ELSE IF s[Len(s)].ch \in Whitespace THEN TrimEnd(SubSeq(s, 1, Len(s) - 1)) ELSE s

\* String.prototype.trim
Trim(s) == TrimEnd(TrimStart(s))

\* String.prototype.toLowerCase
ToLowerCase(s) == Canon([i \in 1..Len(s) |-> [ch |-> LowerCh(s[i].ch), n |-> s[i].n]])

\* the last k characters of s, as a sequence of characters (k small)
RECURSIVE LastChars(_, _)
LastChars(s, k) ==
    IF k = 0 \/ s = <<>> THEN <<>>
    ELSE LET r == s[Len(s)]
             rest == IF r.n = 1 THEN SubSeq(s, 1, Len(s) - 1)
                     ELSE [s EXCEPT ![Len(s)] = [ch |-> r.ch, n |-> r.n - 1]]
         IN  LastChars(rest, k - 1) \o <<r.ch>>

\* domain.endsWith(".is")
EndsWithIs(s) == LastChars(s, 3) = <<".", "i", "s">>

\* an argument of whois(): a string, or a value of another type
StrVal(s) == [type |-> "string", str |-> s]
NonStrings == {[type |-> "undefined", str |-> <<>>],
               [type |-> "number", str |-> <<>>],
               [type |-> "object", str |-> <<>>]}

\* !domain: undefined, null, 0, NaN and "" are falsy (number stands for a non-zero one)
Falsy(v) == v.type = "undefined" \/ (v.type = "string" /\ v.str = <<>>)

\* validateDomain with the length taken before trimming
ValidationErrorUntrimmed(v) ==
    IF Falsy(v) \/ v.type # "string" THEN "Domain must be a non-empty string"
    ELSE IF StrLen(Trim(v.str)) = 0 THEN "Domain must be a non-empty string"
    ELSE IF StrLen(v.str) > MaxDomainLength THEN "Domain name too long"
    ELSE ""

\* validateDomain's message when it throws, "" when it returns
ValidationError(v) ==
    IF Falsy(v) \/ v.type # "string" THEN "Domain must be a non-empty string"
    ELSE LET sanitized == ToLowerCase(Trim(v.str))
         IN  IF StrLen(sanitized) = 0 THEN "Domain must be a non-empty string"
             ELSE IF StrLen(sanitized) > MaxDomainLength THEN "Domain name too long"
             ELSE ""

\* validateDomain's result when it returns
Sanitized(v) == ToLowerCase(Trim(v.str))

-----------------------------------------------------------------------------
(* Values.  JS null in a string field is the string Null; a timestamp is   *)
(* an integer > 0 and null is NullTs; an event date is an integer > 0      *)
(* when it parses, 0 when the field is missing or empty and -1 when the    *)
(* string does not parse ("not-a-date").  Registrar ids are strings        *)
(* ("0", "146", or a handle such as "REG-1").                              *)

Null == "null"
NullTs == 0

NoIdentity == [set |-> FALSE]

\* the record both whois() and port43() start from (index.ts:78-88, 95-105;
\* port43.ts:53-62, which has no statusDelta: it is kept empty here)
BlankRecord(found, statusCode, error) ==
    [found |-> found, statusCode |-> statusCode, error |-> error,
     registrar |-> [id |-> "0", name |-> Null],
     reseller |-> Null,
     status |-> <<>>, statusDelta |-> <<>>, nameservers |-> <<>>,
     ts |-> [created |-> NullTs, updated |-> NullTs, expires |-> NullTs],
     server |-> "", identity |-> NoIdentity]

\* JS null / a rejected or absent document
NoDoc == [null |-> TRUE]

\* an RDAP document with every field absent
BaseDoc ==
    [null |-> FALSE,
     rdapConformance0 |-> FALSE, \* rdapConformance["0"] is truthy
     errorCode |-> FALSE,       \* a truthy errorCode field
     error |-> FALSE,           \* a truthy error field
     links |-> <<>>,            \* [rel, type, href, value]
     entities |-> [form |-> "absent", items |-> <<>>],
     status |-> <<>>,
     nameservers |-> [present |-> FALSE, list |-> <<>>],
     events |-> <<>>,
     handle |-> "",             \* IP documents
     port43 |-> ""]

SeqToSet(s) == {s[i] : i \in 1..Len(s)}

Includes(s, x) == \E i \in 1..Len(s) : s[i] = x

\* [...new Set(s)]: the first occurrence of every value, in order
RECURSIVE Dedup(_)
Dedup(s) ==
    IF s = <<>> THEN <<>>
    ELSE LET init == Dedup(SubSeq(s, 1, Len(s) - 1))
         IN  IF Includes(init, s[Len(s)]) THEN init ELSE Append(init, s[Len(s)])

NoDuplicates(s) == \A i, j \in 1..Len(s) : s[i] = s[j] => i = j

-----------------------------------------------------------------------------
(* Status.  A canonical status is [prefix, rest], e.g. clientHold is       *)
(* [prefix |-> "client", rest |-> "Hold"] and ok is [prefix |-> "",        *)
(* rest |-> "ok"]; an upstream token adds the spelling it came in.         *)

Canonical(prefix, rest) == [prefix |-> prefix, rest |-> rest]

\* an upstream status token: the status it means and how it was spelled
Token(prefix, rest, spelling) == [prefix |-> prefix, rest |-> rest, spelling |-> spelling]

\* normalizeWhoisStatus: synonyms and casing variants collapse to one status
normalizeWhoisStatus(token) == Canonical(token.prefix, token.rest)

\* status.replace(/^client/, "server")
ClientToServer(st) == IF st.prefix = "client" THEN Canonical("server", st.rest) ELSE st

\* status.replace(/^server/, "client")
ServerToClient(st) == IF st.prefix = "server" THEN Canonical("client", st.rest) ELSE st

\* findStatus on the array form
findStatus(statuses) == [i \in 1..Len(statuses) |-> normalizeWhoisStatus(statuses[i])]

\* index.ts:449-450
PresentIn(side, st) ==
    Includes(side, st) \/ Includes(side, ClientToServer(st)) \/ Includes(side, ServerToClient(st))

\* index.ts:445
StatusUnion(statusThin, statusThick) == Dedup(statusThin \o statusThick)

\* a delta that compares exact presence only
StatusDeltaExact(statusThin, statusThick, union) ==
    LET Differs(st) == Includes(statusThin, st) # Includes(statusThick, st)
        kept == SelectSeq(union, Differs)
    IN  [i \in 1..Len(kept) |->
            [status |-> kept[i], thin |-> Includes(statusThin, kept[i]),
             thick |-> Includes(statusThick, kept[i])]]

\* index.ts:447-454
StatusDelta(statusThin, statusThick, union) ==
    LET Differs(st) == PresentIn(statusThin, st) # PresentIn(statusThick, st)
        kept == SelectSeq(union, Differs)
    IN  [i \in 1..Len(kept) |->
            [status |-> kept[i], thin |-> PresentIn(statusThin, kept[i]),
             thick |-> PresentIn(statusThick, kept[i])]]

-----------------------------------------------------------------------------
(* Host names are sequences of characters, compared by code unit as the    *)
(* default Array.prototype.sort does.                                      *)

Ord(c) ==
    CASE c = "." -> 46
      [] c = "1" -> 49
      [] c = "A" -> 65
      [] c = "B" -> 66
      [] c = "a" -> 97
      [] c = "b" -> 98
      [] OTHER -> 122

LowerHostCh(c) ==
    CASE c = "A" -> "a"
      [] c = "B" -> "b"
      [] OTHER -> c

\* String.prototype.toLowerCase / toLocaleLowerCase on a host name
LowerHost(h) == [i \in 1..Len(h) |-> LowerHostCh(h[i])]

RECURSIVE StrLess(_, _)
StrLess(x, y) ==
    IF y = <<>> THEN FALSE
    ELSE IF x = <<>> THEN TRUE
    ELSE IF Ord(Head(x)) # Ord(Head(y)) THEN Ord(Head(x)) < Ord(Head(y))
    ELSE StrLess(Tail(x), Tail(y))

\* insert x after the elements that are not greater (a stable insertion)
RECURSIVE InsertSorted(_, _)
InsertSorted(s, x) ==
    IF s = <<>> THEN <<x>>
    ELSE IF StrLess(x, Head(s)) THEN <<x>> \o s
    ELSE <<Head(s)>> \o InsertSorted(Tail(s), x)

\* Array.prototype.sort() on strings
RECURSIVE SortStrings(_)
SortStrings(s) ==
    IF s = <<>> THEN <<>>
    ELSE InsertSorted(SortStrings(SubSeq(s, 1, Len(s) - 1)), s[Len(s)])

IsSorted(s) == \A i \in 1..(Len(s) - 1) : ~StrLess(s[i + 1], s[i])

IsLowerCased(s) == \A i \in 1..Len(s) : LowerHost(s[i]) = s[i]

\* a nameserver object of an RDAP document
Nameserver(ldhName, ldnName, v4) == [ldhName |-> ldhName, ldnName |-> ldnName, v4 |-> v4]

\* ns.ldhName || ns.ldnName || ns.ipAddresses?.v4, then flat(): the strings of one object
NsNames(ns) ==
    IF ns.ldhName # <<>> THEN <<ns.ldhName>>
    ELSE IF ns.ldnName # <<>> THEN <<ns.ldnName>>
    ELSE ns.v4

RECURSIVE FlatNames(_)
FlatNames(values) ==
    IF values = <<>> THEN <<>> ELSE NsNames(Head(values)) \o FlatNames(Tail(values))

NonEmpty(x) == x # <<>>

\* index.ts:483-497
findNameservers(values) ==
    LET kept == SelectSeq(FlatNames(values), NonEmpty)
    IN  SortStrings([i \in 1..Len(kept) |-> LowerHost(kept[i])])

-----------------------------------------------------------------------------
(* Events.  An event date is [raw, t]: raw tells how the string is         *)
(* written ("none": missing or empty, "bad": unparsable, "iso", or         *)
(* "plus0000Z": an ISO date with the malformed +0000Z suffix) and t > 0    *)
(* is the instant an ISO date names.                                       *)

EventDate(raw, t) == [raw |-> raw, t |-> t]
Event(action, date) == [eventAction |-> action, eventDate |-> date]

\* eventAction.toLocaleLowerCase()
LowerAction(a) ==
    CASE a = "Registration" -> "registration"
      [] a = "Last Changed" -> "last changed"
      [] a = "Expiration" -> "expiration"
      [] OTHER -> a

\* new Date(str.replace(/\+0000Z$/, "Z")) is a valid date
ParsesValid(d) == d.raw \in {"iso", "plus0000Z"}

\* the first event of the given action with a date that parses, or null
RECURSIVE FirstValid(_, _)
FirstValid(events, action) ==
    IF events = <<>> THEN NullTs
    ELSE LET ev == Head(events)
         IN  IF LowerAction(ev.eventAction) = action /\ ev.eventDate.raw # "none"
                /\ ParsesValid(ev.eventDate)
             THEN ev.eventDate.t
             ELSE FirstValid(Tail(events), action)

\* index.ts:503-539, eventMap in its order (index.ts:15-20)
findTimestamps(events) ==
    LET expiration == FirstValid(events, "expiration")
    IN  [created |-> FirstValid(events, "registration"),
         updated |-> FirstValid(events, "last changed"),
         expires |-> IF expiration # NullTs THEN expiration
                     ELSE FirstValid(events, "expiration date")]

-----------------------------------------------------------------------------
(* Entities.  An entity keeps what extractRegistrarsAndResellers reads:    *)
(* its roles, the two public-identifier lists with the form they were      *)
(* serialized in, what the contact card holds at the places the code       *)
(* looks at, the handle and the events.  Strings that are absent are "".   *)

PublicId(type, upper, lower) == [type |-> type, Identifier |-> upper, identifier |-> lower]

NoIds == [form |-> "absent", ids |-> <<>>]

NoVcard == [present |-> FALSE, marker |-> FALSE, pos1 |-> "", fn |-> "", org |-> ""]

NoEvents == [present |-> FALSE, list |-> <<>>]

BaseEntity ==
    [roles |-> {},              \* ent.roles, or ent.role
     publicIds |-> NoIds,       \* form: "absent", "array" or "object" (one id, not in a list)
     publicIDs |-> NoIds,
     vcardArray |-> NoVcard,    \* marker: vcardArray[1][3][3] === "registrar";
                                \* pos1: vcardArray[1][1][3]; fn, org: the card's fn and org
     handle |-> "",
     events |-> NoEvents,
     email |-> "",              \* the first email of the entity's and sub-entities' cards
     abuseEmail |-> ""]         \* the first email of a card whose entity has the abuse role

\* the registrar-ID table, in the order of its entries (ianaIdToRegistrar,
\* ianaToRegistrarCache)
IanaTable ==
    << [id |-> "9", name |-> "GoDaddy Online Services"],
       [id |-> "146", name |-> "GoDaddy.com, LLC"],
       [id |-> "1068", name |-> "NameCheap, Inc."],
       [id |-> "1500", name |-> "GoDaddy"] >>

\* (await ianaIdToRegistrar(n))?.name, "" when the table has no entry
IanaName(id) ==
    IF \E i \in 1..Len(IanaTable) : IanaTable[i].id = id
    THEN IanaTable[CHOOSE i \in 1..Len(IanaTable) : IanaTable[i].id = id].name
    ELSE ""

\* parseInt(id) == id
NumericIds == {"0", "9", "146", "1068", "1500", "777"}
IsNumeric(id) == id \in NumericIds

\* A field that should hold a list is kept as [form, items]; the form is "absent"
\* (undefined), "null", "scalar" (a string or a number), "array" (items are the
\* elements) or "object" (items are the properties [key, value] in the order the
\* document lists them, the keys being integers)
Keyed(k, v) == [key |-> k, value |-> v]

\* Object.values: the values of integer keys come in ascending key order
ObjectValues(props) ==
    [i \in 1..Len(props) |->
        props[CHOOSE j \in 1..Len(props) :
                 Cardinality({k \in 1..Len(props) : props[k].key < props[j].key}) = i - 1].value]

\* the values in the order the document lists the properties
ListedValues(props) == [i \in 1..Len(props) |-> props[i].value]

\* Object.values taken as the properties' listing order
toArrayAsListed(value) ==
    CASE value.form = "array" -> value.items
      [] value.form = "object" -> ListedValues(value.items)
      [] OTHER -> <<>>

\* toArray (index.ts:26-38)
toArray(value) ==
    CASE value.form = "array" -> value.items
      [] value.form = "object" -> ObjectValues(value.items)
      [] OTHER -> <<>>

\* fixArrays: fields serialized as objects with numeric keys become sequences
fixArrays(doc) ==
    IF doc.entities.form = "object"
    THEN [doc EXCEPT !.entities = [form |-> "array", items |-> ObjectValues(doc.entities.items)]]
    ELSE doc

\* index.ts:191-197 for one of the two lists: a list is spread, a single object is
\* pushed wrapped in an array, whose .type is undefined
SpreadIds(list) ==
    CASE list.form = "array" -> list.ids
      [] list.form = "object" -> <<PublicId("", "", "")>>
      [] OTHER -> <<>>

PubIds(ent) == SpreadIds(ent.publicIds) \o SpreadIds(ent.publicIDs)

HasType(pubIds, type) == \E i \in 1..Len(pubIds) : pubIds[i].type = type

\* pubIds.find(id => id.type === type)
FindType(pubIds, type) ==
    pubIds[CHOOSE i \in 1..Len(pubIds) :
              /\ pubIds[i].type = type
              /\ \A j \in 1..(i - 1) : pubIds[j].type # type]

UpperOf(pubIds, type) == IF HasType(pubIds, type) THEN FindType(pubIds, type).Identifier ELSE ""
LowerOf(pubIds, type) == IF HasType(pubIds, type) THEN FindType(pubIds, type).identifier ELSE ""

\* index.ts:205-214: the identifier, "[object]" when only the IANA entry itself is
\* truthy, "" when nothing is
RegOf(pubIds) ==
    LET chain == << UpperOf(pubIds, "PANDI Registrar ID"), LowerOf(pubIds, "PANDI Registrar ID"),
                    UpperOf(pubIds, "IANA Registrar ID"), LowerOf(pubIds, "IANA Registrar ID"),
                    UpperOf(pubIds, "IANA RegistrarID"), LowerOf(pubIds, "IANA RegistrarID"),
                    LowerOf(pubIds, "Registry Identifier") >>
    IN  IF \E i \in 1..Len(chain) : chain[i] # ""
        THEN chain[CHOOSE i \in 1..Len(chain) : chain[i] # "" /\ \A j \in 1..(i - 1) : chain[j] = ""]
        ELSE IF HasType(pubIds, "IANA Registrar ID") THEN "[object]" ELSE ""

\* findInObject(ent.vcardArray, fn or org, el => el[3], fallback)
FnOrOrg(ent, fallback) ==
    IF ent.vcardArray.present /\ ent.vcardArray.fn # "" THEN ent.vcardArray.fn
    ELSE IF ent.vcardArray.present /\ ent.vcardArray.org # "" THEN ent.vcardArray.org
    ELSE fallback

\* (parseInt(id) == id && (await ianaIdToRegistrar(parseInt(id)))?.name) || findInObject(...)
ResolvedName(ent, id, fallback) ==
    IF IsNumeric(id) /\ IanaName(id) # "" THEN IanaName(id) ELSE FnOrOrg(ent, fallback)

\* ent.events || response.events || ent.enents || response.enents
EventsOf(ent, doc) == IF ent.events.present THEN ent.events.list ELSE doc.events

Candidate(id, name, email, abuseEmail, events) ==
    [id |-> id, name |-> name, email |-> email, abuseEmail |-> abuseEmail, events |-> events]

\* the rule that applies to a registrar-role entity: "a".."d", or "none"
RegistrarRule(ent) ==
    IF RegOf(PubIds(ent)) # "" THEN "a"
    ELSE IF ent.vcardArray.present /\ ent.vcardArray.marker THEN "b"
    ELSE IF ent.vcardArray.present /\ ent.vcardArray.fn # "" THEN "c"
    ELSE IF ent.handle # "" THEN "d"
    ELSE "none"

\* index.ts:189-346: the candidates the registrar role of one entity pushes
FromRegistrarRole(ent, doc) ==
    LET reg == RegOf(PubIds(ent))
        rule == RegistrarRule(ent)
        events == EventsOf(ent, doc)
    IN  CASE rule = "a" ->
               LET id == IF reg = "[object]" THEN "0" ELSE reg
               IN  <<Candidate(id, ResolvedName(ent, id, reg), ent.email, ent.abuseEmail, events)>>
          [] rule = "b" ->
               <<Candidate("0", ent.vcardArray.pos1, ent.email, ent.abuseEmail, events)>>
          [] rule = "c" ->
               IF ent.handle # "" /\ IsNumeric(ent.handle)
               THEN <<Candidate(ent.handle, ResolvedName(ent, ent.handle, ent.handle),
                                ent.email, ent.abuseEmail, events)>>
               ELSE <<Candidate(IF ent.handle # "" THEN ent.handle ELSE "0",
                                ent.vcardArray.fn, ent.email, ent.abuseEmail, events)>>
          [] rule = "d" ->
               <<Candidate("0", ent.handle, "", "", events)>>
          [] OTHER -> <<>>

\* index.ts:348-393: the .is technical contact
FromTechnicalRole(ent, doc) ==
    LET id == IF ent.handle # "" THEN ent.handle ELSE "undefined"
    IN  <<Candidate(id, ResolvedName(ent, id, id), ent.email, ent.abuseEmail, EventsOf(ent, doc))>>

\* the registrar candidates of one entity, in the order they are pushed
EntityRegistrars(ent, doc, isDotIs) ==
    (IF "registrar" \in ent.roles THEN FromRegistrarRole(ent, doc) ELSE <<>>)
    \o (IF isDotIs /\ "technical" \in ent.roles THEN FromTechnicalRole(ent, doc) ELSE <<>>)

\* index.ts:395-407
EntityResellers(ent) ==
    IF "reseller" \in ent.roles /\ ent.vcardArray.present
    THEN <<[name |-> FnOrOrg(ent, "")]>>
    ELSE <<>>

RECURSIVE DocRegistrars(_, _, _)
DocRegistrars(entityList, doc, isDotIs) ==
    IF entityList = <<>> THEN <<>>
    ELSE EntityRegistrars(Head(entityList), doc, isDotIs)
         \o DocRegistrars(Tail(entityList), doc, isDotIs)

RECURSIVE DocResellers(_)
DocResellers(entityList) ==
    IF entityList = <<>> THEN <<>>
    ELSE EntityResellers(Head(entityList)) \o DocResellers(Tail(entityList))

\* index.ts:180-186: the entities of a document (the single entity field is not
\* carried by the documents modelled here)
EntityList(doc) == toArray(doc.entities)

-----------------------------------------------------------------------------
(* The merge of whois(): index.ts:411-469.                                 *)

\* new Date("0").valueOf(): the string "0" parses as the start of the year 2000
DateOfZero == 3

\* index.ts:422-427: the sort key of a candidate, NaN when the date does not parse
HasRegistration(events) == \E i \in 1..Len(events) : events[i].eventAction = "registration"

RegistrationDate(events) ==
    events[CHOOSE i \in 1..Len(events) :
              /\ events[i].eventAction = "registration"
              /\ \A j \in 1..(i - 1) : events[j].eventAction # "registration"].eventDate

SortKey(cand) ==
    IF ~HasRegistration(cand.events) THEN [nan |-> FALSE, v |-> DateOfZero]
    ELSE LET d == RegistrationDate(cand.events)
         IN  IF d.raw = "none" THEN [nan |-> FALSE, v |-> DateOfZero]
             ELSE IF ParsesValid(d) THEN [nan |-> FALSE, v |-> d.t]
             ELSE [nan |-> TRUE, v |-> 0]

\* the comparator's result is > 0: b sorts before a
ComesAfter(a, b) ==
    LET ka == SortKey(a)
        kb == SortKey(b)
    IN  ~ka.nan /\ ~kb.nan /\ kb.v - ka.v > 0

RECURSIVE InsertCandidate(_, _)
InsertCandidate(s, x) ==
    IF s = <<>> THEN <<x>>
    ELSE IF ComesAfter(s[Len(s)], x)
         THEN InsertCandidate(SubSeq(s, 1, Len(s) - 1), x) \o <<s[Len(s)]>>
         ELSE Append(s, x)

\* registrars.sort(...): stable, latest registration date first
RECURSIVE SortCandidates(_)
SortCandidates(s) ==
    IF s = <<>> THEN <<>>
    ELSE InsertCandidate(SortCandidates(SubSeq(s, 1, Len(s) - 1)), s[Len(s)])

\* index.ts:421-436
PickRegistrar(regs) ==
    IF regs = <<>> THEN [id |-> "0", name |-> ""]
    ELSE LET first == SortCandidates(regs)[1]
         IN  [id |-> first.id, name |-> first.name, email |-> first.email,
              abuseEmail |-> first.abuseEmail]

\* index.ts:439
PickReseller(resell) == IF resell = <<>> THEN "" ELSE resell[1].name

\* doc && !doc.errorCode
Usable(doc) == ~doc.null /\ ~doc.errorCode

\* doc?.status || [], doc?.events || []
StatusOf(doc) == IF doc.null THEN <<>> ELSE doc.status
EventsOfDoc(doc) == IF doc.null THEN <<>> ELSE doc.events

\* thickResponse?.nameservers || thinResponse?.nameservers || []
NameserversOf(thin, thick) ==
    IF ~thick.null /\ thick.nameservers.present THEN thick.nameservers.list
    ELSE IF ~thin.null /\ thin.nameservers.present THEN thin.nameservers.list
    ELSE <<>>

\* domain.match(/[^\d.]/) ? "domain" : "ip"
TypeOf(dom) ==
    IF \E i \in 1..Len(dom) : dom[i].ch \notin (Digits \cup {"."}) THEN "domain" ELSE "ip"

\* rdap.port43.match(/\.(\w+)\./), upper-cased; "" when absent or unmatched
Registry(port43) ==
    CASE port43 = "whois.arin.net" -> "ARIN"
      [] port43 = "whois.ripe.net" -> "RIPE"
      [] OTHER -> ""

HasSelf(doc) == \E i \in 1..Len(doc.links) : doc.links[i].rel = "self"

SelfLink(doc) ==
    doc.links[CHOOSE i \in 1..Len(doc.links) :
                 doc.links[i].rel = "self" /\ \A j \in 1..(i - 1) : doc.links[j].rel # "self"]

\* ip.ts:3-36.  The identity keeps the handle and the address asked for; the range,
\* cidr, name, type and parent are copied from the document in the same way
parseIpResponse(ip, rdap, rec) ==
    [rec EXCEPT
        !.found = (rdap.handle # ""),
        !.server = IF HasSelf(rdap) /\ SelfLink(rdap).value # "" THEN SelfLink(rdap).value
                   ELSE "https://rdap.org/ip/",
        !.identity = [set |-> TRUE, handle |-> rdap.handle, ip |-> ip],
        !.registrar = [id |-> "0", name |-> Registry(rdap.port43)]]

\* index.ts:180-409: what extractRegistrarsAndResellers pushes for one document
PushedRegistrars(doc, dom) ==
    IF Usable(doc) THEN DocRegistrars(EntityList(doc), doc, EndsWithIs(dom)) ELSE <<>>
PushedResellers(doc) ==
    IF Usable(doc) THEN DocResellers(EntityList(doc)) ELSE <<>>

\* index.ts:418-469: the record whois() returns from the two documents and the
\* candidates collected; rec is the response object as the thin fetch left it
\* (statusCode, error)
AssembleFrom(rec, dom, thin, thick, regs, resell) ==
    LET statusThin == findStatus(StatusOf(thin))
        statusThick == findStatus(StatusOf(thick))
        status == StatusUnion(statusThin, statusThick)
        merged ==
            [rec EXCEPT
                !.found = TRUE,
                !.registrar = PickRegistrar(regs),
                !.reseller = PickReseller(resell),
                !.status = status,
                !.statusDelta = StatusDelta(statusThin, statusThick, status),
                !.nameservers = findNameservers(NameserversOf(thin, thick)),
                !.ts = findTimestamps(EventsOfDoc(thick) \o EventsOfDoc(thin))]
    IN  IF TypeOf(dom) = "ip" THEN parseIpResponse(dom, thin, merged) ELSE merged

\* index.ts:411-469: the record of a call whose arrays hold what its own two
\* extractions push, the thick document first
Assemble(rec, dom, thin, thick) ==
    AssembleFrom(rec, dom, thin, thick,
                 PushedRegistrars(thick, dom) \o PushedRegistrars(thin, dom),
                 PushedResellers(thick) \o PushedResellers(thin))

-----------------------------------------------------------------------------
(* The legacy reply.  The text is a sequence of lines; a line is [k, v]:   *)
(* k names the label pattern of port43.ts the line matches and v is what   *)
(* the pattern captures from it.                                           *)
(*   "nf"           a no-record phrase (port43.ts:113), v the phrase       *)
(*   "registrarUrl" registrar: NAME (http...   (port43.ts:130), v NAME     *)
(*   "registrar"    Registrar: NAME            (port43.ts:135)             *)
(*   "registrarBlock"   REGISTRAR: and NAME on the next line (port43.ts:140) *)
(*   "registrarSection" [Registrar] ... Name: NAME          (port43.ts:145) *)
(*   "ianaId"       Registrar IANA ID: N       (port43.ts:150)             *)
(*   "reseller"     Reseller: NAME             (port43.ts:155)             *)
(*   "updated", "created", "expires"  a date line of the first pattern of  *)
(*                  the field (port43.ts:161, 172, 183), v the date as     *)
(*                  [raw, t]                                               *)
(*   "updatedBracket", "createdRecord", "expiresRecord"  a date line of    *)
(*                  the second pattern (port43.ts:166, 177, 188)           *)
(*   "status"       Status: a,b                (port43.ts:192), v tokens   *)
(*   "domainStatus" Domain status : a - b -    (port43.ts:199), v tokens   *)
(*   "ns"           Name Server: HOST          (port43.ts:203), v HOST,    *)
(*                  <<>> when the label has no value                       *)
(*   "nsBracket"    [Name Server] HOST         (port43.ts:212)             *)
(*   "nsBlock"      DNS servers and Name...: lines (port43.ts:221), v the  *)
(*                  hosts the block holds                                  *)
(*   "nsListed"     Domain servers in listed order: (port43.ts:227)        *)
(*   "nsColon"      nameservers: and hosts on the next lines (port43.ts:233) *)
(*   "other"        a line no pattern matches                              *)

Line(k, v) == [k |-> k, v |-> v]

HasLine(text, k) == \E i \in 1..Len(text) : text[i].k = k

\* String.prototype.match without the g flag: the first matching line
FirstLine(text, k) ==
    text[CHOOSE i \in 1..Len(text) : text[i].k = k /\ \A j \in 1..(i - 1) : text[j].k # k]

\* match with the g flag: every matching line, in order
AllLines(text, k) == SelectSeq(text, LAMBDA l : l.k = k)

\* new Date(reformatDate(m[1])), null after port43.ts:239-241 when it is invalid
LegacyDate(d) == IF d.raw \in {"iso", "dmy", "ymd", "clt"} THEN d.t ELSE NullTs

\* the tokens of a name, lower-cased: words (maximal runs of \w) and the
\* characters between them
NameTokens(name) ==
    CASE name = "GoDaddy.com, LLC" -> <<"godaddy", ".", "com", ",", " ", "llc">>
      [] name = "GoDaddy.com" -> <<"godaddy", ".", "com">>
      [] name = "godaddy.com, llc" -> <<"godaddy", ".", "com", ",", " ", "llc">>
      [] name = "GoDaddy" -> <<"godaddy">>
      [] name = "GoDaddy Online Services" -> <<"godaddy", " ", "online", " ", "services">>
      [] name = "NameCheap, Inc." -> <<"namecheap", ",", " ", "inc", ".">>
      [] name = "Gandi SAS" -> <<"gandi", " ", "sas">>
      [] name = "GODADDY" -> <<"godaddy">>
      [] name = "Online" -> <<"online">>
      [] name = "Daddy" -> <<"daddy">>
      [] name = "NameCheap, LLC" -> <<"namecheap", ",", " ", "llc">>
      [] name = ", Ltd" -> <<",", " ", "ltd">>
      [] OTHER -> <<name>>

IsWordToken(t) == t \notin {".", ",", " "}

\* name.replace(/,.*/, ""): the tokens before the first comma
RECURSIVE BeforeComma(_)
BeforeComma(toks) ==
    IF toks = <<>> \/ Head(toks) = "," THEN <<>>
    ELSE <<Head(toks)>> \o BeforeComma(Tail(toks))

\* entry.match(new RegExp(`\\b${escaped}\\b`, "i")) on token sequences: the pattern
\* occurs in the entry, and a word boundary stands at both of its ends
MatchesAt(pat, entry, i) ==
    /\ i + Len(pat) - 1 <= Len(entry)
    /\ \A k \in 1..Len(pat) : entry[i + k - 1] = pat[k]
    /\ IF IsWordToken(pat[1]) THEN i = 1 \/ ~IsWordToken(entry[i - 1])
       ELSE i > 1 /\ IsWordToken(entry[i - 1])
    /\ LET e == i + Len(pat)
       IN  IF IsWordToken(pat[Len(pat)]) THEN e > Len(entry) \/ ~IsWordToken(entry[e])
           ELSE e <= Len(entry) /\ IsWordToken(entry[e])

\* the empty pattern gives /\b\b/, which matches wherever a word begins
WordMatch(pat, entry) ==
    IF pat = <<>> THEN \E i \in 1..Len(entry) : IsWordToken(entry[i])
    ELSE \E i \in 1..Len(entry) : MatchesAt(pat, entry, i)

FirstEntry(Hit(_)) ==
    IF \E i \in 1..Len(IanaTable) : Hit(IanaTable[i])
    THEN IanaTable[CHOOSE i \in 1..Len(IanaTable) :
                      Hit(IanaTable[i]) /\ \A j \in 1..(i - 1) : ~Hit(IanaTable[j])].id
    ELSE "0"

\* one pass over the table that takes the first entry matching in any of the three ways
ResolveFirstAny(name) ==
    IF name \in {"", Null} THEN "0"
    ELSE FirstEntry(LAMBDA e : \/ e.name = name
                               \/ WordMatch(NameTokens(name), NameTokens(e.name))
                               \/ WordMatch(BeforeComma(NameTokens(name)), NameTokens(e.name)))

\* port43.ts:243-281: the id the three passes leave for a name, the id being 0
ResolveRegistrarId(name) ==
    LET exact == IF name # "" THEN FirstEntry(LAMBDA e : e.name = name) ELSE "0"
        truthy == name # "" /\ name # Null
        word == IF truthy
                THEN FirstEntry(LAMBDA e : WordMatch(NameTokens(name), NameTokens(e.name)))
                ELSE "0"
        comma == IF truthy
                 THEN FirstEntry(LAMBDA e : WordMatch(BeforeComma(NameTokens(name)),
                                                      NameTokens(e.name)))
                 ELSE "0"
    IN  IF exact # "0" THEN exact ELSE IF word # "0" THEN word ELSE comma

RECURSIVE StatusTokens(_)
StatusTokens(lines) ==
    IF lines = <<>> THEN <<>> ELSE Head(lines).v \o StatusTokens(Tail(lines))

\* port43.ts:192-200: every token of every status line is normalized and pushed
GenericStatus(text) ==
    LET all == StatusTokens(AllLines(text, "status"))
    IN  IF all # <<>> THEN findStatus(all)
        ELSE IF HasLine(text, "domainStatus") THEN findStatus(FirstLine(text, "domainStatus").v)
        ELSE <<>>

RECURSIVE LineHosts(_)
LineHosts(lines) ==
    IF lines = <<>> THEN <<>>
    ELSE (IF Head(lines).v = <<>> THEN <<>> ELSE <<LowerHost(Head(lines).v)>>)
         \o LineHosts(Tail(lines))

\* port43.ts:202-237: the hosts in the order of the lines, lower-cased; each of the
\* five alternatives runs only while the list is empty
GenericNameservers(text) ==
    LET Block(k) == IF HasLine(text, k)
                    THEN LET v == FirstLine(text, k).v
                         IN  [i \in 1..Len(v) |-> LowerHost(v[i])]
                    ELSE <<>>
        ns == LineHosts(AllLines(text, "ns"))
        bracket == LineHosts(AllLines(text, "nsBracket"))
    IN  IF ns # <<>> THEN ns
        ELSE IF bracket # <<>> THEN bracket
        ELSE IF Block("nsBlock") # <<>> THEN Block("nsBlock")
        ELSE IF Block("nsListed") # <<>> THEN Block("nsListed")
        ELSE Block("nsColon")

\* port43.ts:128-147
GenericRegistrarName(text) ==
    IF HasLine(text, "registrarUrl") THEN FirstLine(text, "registrarUrl").v
    ELSE IF HasLine(text, "registrar") THEN FirstLine(text, "registrar").v
    ELSE IF HasLine(text, "registrarBlock") THEN FirstLine(text, "registrarBlock").v
    ELSE IF HasLine(text, "registrarSection") THEN FirstLine(text, "registrarSection").v
    ELSE Null

\* the second label pattern of a date field
SecondLabel(k) ==
    CASE k = "updated" -> "updatedBracket"
      [] k = "created" -> "createdRecord"
      [] k = "expires" -> "expiresRecord"

\* port43.ts:159-190, 239-241: the first pattern that matches a line sets the field
\* to a Date, which is truthy also when it is invalid, so the second pattern runs
\* only when the first matched no line
GenericDate(text, k) ==
    IF HasLine(text, k) THEN LegacyDate(FirstLine(text, k).v)
    ELSE IF HasLine(text, SecondLabel(k)) THEN LegacyDate(FirstLine(text, SecondLabel(k)).v)
    ELSE NullTs

\* a generic extraction that writes every field the reply has a line for, whatever
\* the override parser left
GenericExtractOverwrite(rec, text) ==
    LET name == IF GenericRegistrarName(text) # Null
                THEN GenericRegistrarName(text) ELSE rec.registrar.name
        id0 == IF HasLine(text, "ianaId") THEN FirstLine(text, "ianaId").v ELSE rec.registrar.id
        id == IF id0 = "0" THEN ResolveRegistrarId(name) ELSE id0
        Date(k, old) == IF GenericDate(text, k) # NullTs THEN GenericDate(text, k) ELSE old
    IN  [rec EXCEPT
            !.registrar = [id |-> id, name |-> name],
            !.reseller = IF HasLine(text, "reseller")
                         THEN FirstLine(text, "reseller").v ELSE rec.reseller,
            !.ts = [created |-> Date("created", rec.ts.created),
                    updated |-> Date("updated", rec.ts.updated),
                    expires |-> Date("expires", rec.ts.expires)],
            !.status = IF GenericStatus(text) # <<>> THEN GenericStatus(text) ELSE rec.status,
            !.nameservers = IF GenericNameservers(text) # <<>> THEN GenericNameservers(text)
                            ELSE rec.nameservers]

\* port43.ts:128-281: the generic extraction on the record the override parser left
GenericExtract(rec, text) ==
    LET name == IF rec.registrar.name \in {Null, ""} /\ GenericRegistrarName(text) # Null
                THEN GenericRegistrarName(text) ELSE rec.registrar.name
        id0 == IF rec.registrar.id = "0" /\ HasLine(text, "ianaId")
               THEN FirstLine(text, "ianaId").v ELSE rec.registrar.id
        id == IF id0 = "0" THEN ResolveRegistrarId(name) ELSE id0
    IN  [rec EXCEPT
            !.registrar = [id |-> id, name |-> name],
            !.reseller = IF rec.reseller \in {Null, ""} /\ HasLine(text, "reseller")
                         THEN FirstLine(text, "reseller").v ELSE rec.reseller,
            !.ts = [created |-> IF rec.ts.created = NullTs THEN GenericDate(text, "created")
                                ELSE rec.ts.created,
                    updated |-> IF rec.ts.updated = NullTs THEN GenericDate(text, "updated")
                                ELSE rec.ts.updated,
                    expires |-> IF rec.ts.expires = NullTs THEN GenericDate(text, "expires")
                                ELSE rec.ts.expires],
            !.status = IF rec.status = <<>> THEN GenericStatus(text) ELSE rec.status,
            !.nameservers = IF rec.nameservers = <<>> THEN GenericNameservers(text)
                            ELSE rec.nameservers]

\* what a per-TLD override parser wrote into the record (port43parsers, port43.ts:122-126)
ApplyParser(rec, effect) ==
    [rec EXCEPT
        !.registrar = [id |-> effect.id, name |-> effect.name],
        !.reseller = effect.reseller,
        !.status = effect.status,
        !.nameservers = effect.nameservers,
        !.ts = effect.ts]

NoEffect ==
    [id |-> "0", name |-> Null, reseller |-> Null, status |-> <<>>, nameservers |-> <<>>,
     ts |-> [created |-> NullTs, updated |-> NullTs, expires |-> NullTs]]

\* the extraction going on after a no-record phrase was found
Extract43NoReturn(rec, text, effect) ==
    LET out == GenericExtract(ApplyParser(rec, effect), text)
    IN  IF HasLine(text, "nf")
        THEN [out EXCEPT !.found = FALSE, !.statusCode = 404, !.error = FirstLine(text, "nf").v]
        ELSE out

\* port43.ts:107-283: the record port43() returns for an acquired reply
Extract43(rec, text, effect) ==
    IF HasLine(text, "nf")
    THEN [rec EXCEPT !.found = FALSE, !.statusCode = 404, !.error = FirstLine(text, "nf").v]
    ELSE GenericExtract(ApplyParser(rec, effect), text)

-----------------------------------------------------------------------------
(* The lookups.  A configuration C names the lookups that run and the sets *)
(* the arguments and the collaborators' answers are drawn from.            *)

NoRecord == [null |-> TRUE]

\* an entry of replies: the operation, the kind of answer, and for an HTTP answer
\* its status and status text, for a failure its message
Reply(op, kind, o) ==
    [op |-> op, kind |-> kind, status |-> o.status, statusText |-> o.statusText,
     message |-> o.message]
Plain(op, kind, message) ==
    [op |-> op, kind |-> kind, status |-> 0, statusText |-> "", message |-> message]

\* what determinePort43Domain finds in port43servers for a target: nothing, a
\* host to query on port 43, or an HTTP mirror page
NoServer == [kind |-> "none", host |-> "", url |-> ""]
HostServer(host) == [kind |-> "host", host |-> host, url |-> ""]
MirrorServer(page) == [kind |-> "mirror", host |-> "", url |-> page]

\* thickRdap before it is computed
NoUrl == [via |-> "none", href |-> ""]

Set(f, p, v) == [f EXCEPT ![p] = v]

\* a push onto one array that every call of the process shares
PushShared(f, p, items) == [q \in DOMAIN f |-> f[q] \o items]

\* index.ts:177-178, 258, 406: a push onto an array of the call p
Push(f, p, items) == [f EXCEPT ![p] = @ \o items]
Log(f, p, v) == [f EXCEPT ![p] = Append(@, v)]

InitOf(C) ==
    /\ api \in [C.lookups -> C.apis]
    /\ input \in [C.lookups -> C.inputs]
    /\ options \in [C.lookups -> C.options]
    /\ \A p \in C.lookups : api[p] = "port43" =>
            input[p].type = "string" /\ options[p] = [thinOnly |-> FALSE, server |-> ""]
    /\ pc = [p \in C.lookups |-> "start"]
    /\ outcome = [p \in C.lookups |-> "pending"]
    /\ domain = [p \in C.lookups |-> <<>>]
    /\ url = [p \in C.lookups |-> ""]
    /\ response = [p \in C.lookups |-> NoRecord]
    /\ thinResponse = [p \in C.lookups |-> NoDoc]
    /\ thickResponse = [p \in C.lookups |-> NoDoc]
    /\ thickRdap = [p \in C.lookups |-> NoUrl]
    /\ registrars = [p \in C.lookups |-> <<>>]
    /\ resellers = [p \in C.lookups |-> <<>>]
    /\ whoisServer \in [C.lookups -> C.servers]
    /\ port43response = [p \in C.lookups |-> <<>>]
    /\ socket = [p \in C.lookups |-> "none"]
    /\ calls = [p \in C.lookups |-> <<>>]
    /\ replies = [p \in C.lookups |-> <<>>]
    /\ failure = [p \in C.lookups |-> ""]

rdapVars == <<thinResponse, thickResponse, thickRdap, registrars, resellers>>
legacyVars == <<whoisServer, port43response, socket>>
argVars == <<api, input, options>>

\* the call returns rec
Return(p, rec) ==
    /\ response' = Set(response, p, rec)
    /\ pc' = Set(pc, p, "done")
    /\ outcome' = Set(outcome, p, "resolved")

\* the call throws: the promise it returned rejects
Throw(p) ==
    /\ pc' = Set(pc, p, "done")
    /\ outcome' = Set(outcome, p, "rejected")

\* port43() going on to the acquisition without a server
Begin43NoGuard(p, d) ==
    /\ whoisServer' = Set(whoisServer, p, d)
    /\ port43response' = Set(port43response, p, <<>>)
    /\ socket' = socket
    /\ outcome' = outcome
    /\ IF d.kind = "mirror"
       THEN /\ response' = Set(response, p, BlankRecord(TRUE, 200, ""))
            /\ calls' = Log(calls, p, "mirrorFetch")
            /\ pc' = Set(pc, p, "mirror")
       ELSE /\ response' = Set(response, p, [BlankRecord(TRUE, 200, "") EXCEPT !.server = d.host])
            /\ calls' = Log(calls, p, "thirdPartyFetch")
            /\ pc' = Set(pc, p, "thirdParty")

\* port43.ts:41-95, from the call to its first await, for the descriptor d
Begin43(p, d) ==
    /\ whoisServer' = Set(whoisServer, p, d)
    /\ port43response' = Set(port43response, p, <<>>)
    /\ socket' = socket
    /\ CASE d.kind = "none" ->
              /\ Return(p, BlankRecord(FALSE, 405, "No server specified for port 43 lookup"))
              /\ calls' = calls
         [] d.kind = "mirror" ->
              /\ response' = Set(response, p, BlankRecord(TRUE, 200, ""))
              /\ calls' = Log(calls, p, "mirrorFetch")
              /\ pc' = Set(pc, p, "mirror")
              /\ outcome' = outcome
         [] OTHER ->
              /\ response' = Set(response, p, [BlankRecord(TRUE, 200, "") EXCEPT !.server = d.host])
              /\ calls' = Log(calls, p, "thirdPartyFetch")
              /\ pc' = Set(pc, p, "thirdParty")
              /\ outcome' = outcome

\* port43.ts:96-105: the catch block and the return that follows it
Fail43(p, message) ==
    /\ Return(p, [response[p] EXCEPT
                    !.found = FALSE, !.statusCode = 500,
                    !.error = IF message = "" THEN "Unknown error during port 43 lookup"
                              ELSE message])
    /\ failure' = Set(failure, p, message)

\* port43.ts:107-283 on the acquired reply: without an override parser for the TLD
\* (NoEffect), or with a no-record phrase in the reply, port43() returns in the same
\* turn; otherwise it calls the parser, which writes into the record, and awaits it
\* (port43.ts:125)
Finish43(p, rec, text, effect) ==
    /\ IF HasLine(text, "nf") \/ effect = NoEffect
       THEN Return(p, Extract43(rec, text, effect))
       ELSE /\ response' = Set(response, p, ApplyParser(rec, effect))
            /\ pc' = Set(pc, p, "parser")
            /\ outcome' = outcome
    /\ failure' = failure

\* port43.ts:125-283: the override parser settled; the generic extraction runs on
\* the record the parser left and port43() returns
ParserDone(p) ==
    /\ pc[p] = "parser"
    /\ Return(p, GenericExtract(response[p], port43response[p]))
    /\ UNCHANGED <<argVars, domain, url, rdapVars, legacyVars, calls, replies, failure>>

\* a router that asks the legacy server whenever the target has one
DispatchLegacyFirst(p, u, d, rec) ==
    IF d.kind # "none"
    THEN /\ Begin43(p, d)
         /\ url' = Set(url, p, "")
    ELSE /\ url' = Set(url, p, IF u = "" THEN "https://rdap.org" ELSE u)
         /\ response' = Set(response, p, rec)
         /\ calls' = Log(calls, p, "thinFetch")
         /\ pc' = Set(pc, p, "thin")
         /\ UNCHANGED <<outcome, whoisServer, port43response, socket>>

\* index.ts:114-125: no live RDAP URL (u = "") goes to port43() when the target has
\* a legacy server and to rdap.org when it has none; then the thin fetch is issued.
\* rec is the response object of whois()
Dispatch(p, u, d, rec) ==
    IF u = "" /\ d.kind # "none"
    THEN /\ Begin43(p, d)
         /\ url' = Set(url, p, "")
    ELSE /\ url' = Set(url, p, IF u = "" THEN "https://rdap.org" ELSE u)
         /\ response' = Set(response, p, rec)
         /\ calls' = Log(calls, p, "thinFetch")
         /\ pc' = Set(pc, p, "thin")
         /\ UNCHANGED <<outcome, whoisServer, port43response, socket>>

\* index.ts:67-93: validation, and the routing lookup it issues
Validate(p) ==
    /\ pc[p] = "start" /\ api[p] = "whois"
    /\ IF ValidationError(input[p]) # ""
       THEN /\ Return(p, BlankRecord(FALSE, 400, ValidationError(input[p])))
            /\ UNCHANGED <<domain, calls>>
       ELSE /\ domain' = Set(domain, p, Sanitized(input[p]))
            /\ calls' = Log(calls, p, "tldToRdap")
            /\ pc' = Set(pc, p, "route")
            /\ UNCHANGED <<response, outcome>>
    /\ UNCHANGED <<argVars, url, rdapVars, legacyVars, replies, failure>>

\* index.ts:93-125: tldToRdap answers with the RDAP base URL u ("" for null); a URL
\* is checked by DNS, no URL goes on with the legacy server d of the target
Route(p, C) ==
    /\ pc[p] = "route"
    /\ \E u \in C.urls :
          IF u # ""
          THEN /\ url' = Set(url, p, u)
               /\ response' = Set(response, p, BlankRecord(FALSE, 0, ""))
               /\ calls' = Log(calls, p, "resolve4")
               /\ pc' = Set(pc, p, "dns")
               /\ UNCHANGED <<outcome, legacyVars>>
          ELSE Dispatch(p, "", whoisServer[p], BlankRecord(FALSE, 0, ""))
    /\ UNCHANGED <<argVars, domain, rdapVars, replies, failure>>

\* index.ts:110-125: resolve4 answers: "addresses", "empty" or "fail"
Dns(p, C) ==
    /\ pc[p] = "dns"
    /\ \E answer \in C.dns :
          /\ replies' = Log(replies, p, Plain("dns", answer, ""))
          /\ IF answer = "addresses"
             THEN Dispatch(p, url[p], whoisServer[p], response[p])
             ELSE Dispatch(p, "", whoisServer[p], response[p])
    /\ UNCHANGED <<argVars, domain, rdapVars, failure>>

\* the exported port43() called by itself
Port43(p, C) ==
    /\ pc[p] = "start" /\ api[p] = "port43"
    /\ domain' = Set(domain, p, input[p].str)
    /\ Begin43(p, whoisServer[p])
    /\ UNCHANGED <<argVars, url, rdapVars, replies, failure>>

-----------------------------------------------------------------------------
(* The RDAP path.                                                          *)

\* an answer of fetch: a rejection, or a response with a status and a body; the
\* body is a document, or NoDoc when it is not JSON (r.json() rejects) or is null
Rejected(message) ==
    [kind |-> "reject", message |-> message, status |-> 0, statusText |-> "", body |-> NoDoc]
Http(status, statusText, body) ==
    [kind |-> "http", message |-> "", status |-> status, statusText |-> statusText,
     body |-> body]

IsThickLink(doc, link) ==
    /\ link.rel = "related"
    /\ link.type = "application/rdap+json"
    /\ link.href # (IF HasSelf(doc) THEN SelfLink(doc).href ELSE "")

HasThickLink(doc) == \E i \in 1..Len(doc.links) : IsThickLink(doc, doc.links[i])

\* index.ts:148-157: the related link's href, else `${options.server}/domain/${domain}`
ThickRdapOf(doc, server) ==
    IF HasThickLink(doc)
    THEN [via |-> "link",
          href |-> doc.links[CHOOSE i \in 1..Len(doc.links) :
                                /\ IsThickLink(doc, doc.links[i])
                                /\ \A j \in 1..(i - 1) : ~IsThickLink(doc, doc.links[j])].href]
    ELSE [via |-> "server", href |-> IF server = "" THEN "undefined" ELSE server]

\* thickResponse with a rejected thick document kept
ThickOfKeepErrors(o) ==
    IF o.kind = "http" /\ ~o.body.null
    THEN (IF o.body.rdapConformance0 THEN fixArrays(o.body) ELSE o.body)
    ELSE NoDoc

\* index.ts:163-175: what thickResponse holds after the thick fetch
ThickOf(o) ==
    IF o.kind = "http" /\ ~o.body.null /\ ~o.body.errorCode /\ ~o.body.error
    THEN (IF o.body.rdapConformance0 THEN fixArrays(o.body) ELSE o.body)
    ELSE NoDoc

ThickReply(o) ==
    Reply("thick",
          CASE o.kind = "reject" -> "reject"
            [] o.body.null -> "nonjson"
            [] o.body.errorCode -> "errorCode"
            [] o.body.error -> "error"
            [] OTHER -> "ok",
          o)

ThinReply(o) ==
    Reply("thin",
          CASE o.kind = "reject" -> "reject"
            [] ~(o.status >= 200 /\ o.status < 400) -> "status"
            [] o.body.null -> "nonjson"
            [] o.body.errorCode -> "errorCode"
            [] OTHER -> "ok",
          o)

\* index.ts:125-137: the response object after the thin fetch
AfterThin(rec, o) ==
    IF o.kind = "reject" THEN rec
    ELSE IF o.status >= 200 /\ o.status < 400 THEN [rec EXCEPT !.statusCode = o.status]
    ELSE [rec EXCEPT !.statusCode = o.status, !.error = o.statusText]

\* index.ts:125-137: what thinResponse holds after the thin fetch
ThinOf(o) ==
    IF o.kind = "http" /\ o.status >= 200 /\ o.status < 400 THEN o.body ELSE NoDoc

\* a thin fetch that is issued again when it rejects
ThinFetchRetry(p, C) ==
    /\ pc[p] = "thin"
    /\ \E o \in C.thin :
          /\ o.kind = "reject"
          /\ replies' = Log(replies, p, ThinReply(o))
          /\ calls' = Log(calls, p, "thinFetch")
          /\ failure' = Set(failure, p, o.message)
    /\ UNCHANGED <<argVars, pc, outcome, domain, url, response, rdapVars, legacyVars>>

\* index.ts:125-171: the thin fetch answers; the call returns, throws, issues the
\* thick fetch or goes on to the extraction
ThinFetch(p, C) ==
    /\ pc[p] = "thin"
    /\ \E o \in C.thin :
          LET rec == AfterThin(response[p], o)
              thin0 == ThinOf(o)
              thin == IF ~thin0.null /\ thin0.rdapConformance0 THEN fixArrays(thin0) ELSE thin0
          IN  /\ replies' = Log(replies, p, ThinReply(o))
              /\ failure' = IF o.kind = "reject" THEN Set(failure, p, o.message) ELSE failure
              /\ thinResponse' = Set(thinResponse, p, thin)
              /\ IF ~Usable(thin0) /\ options[p].server = ""
                 THEN \* index.ts:139-142
                      /\ Return(p, rec)
                      /\ UNCHANGED <<thickRdap, calls>>
                 ELSE IF thin0.null
                 THEN \* index.ts:150 reads thinResponse.links of null: a TypeError
                      /\ Throw(p)
                      /\ response' = Set(response, p, rec)
                      /\ UNCHANGED <<thickRdap, calls>>
                 ELSE /\ thickRdap' = Set(thickRdap, p, ThickRdapOf(thin, options[p].server))
                      /\ IF ~options[p].thinOnly
                         THEN /\ calls' = Log(calls, p, "thickFetch")
                              /\ pc' = Set(pc, p, "thick")
                              /\ response' = Set(response, p, rec)
                              /\ outcome' = outcome
                         ELSE IF Usable(thin)
                         THEN /\ pc' = Set(pc, p, "merge")
                              /\ response' = Set(response, p, rec)
                              /\ UNCHANGED <<outcome, calls>>
                         ELSE /\ Return(p, Assemble(rec, domain[p], thin, NoDoc))
                              /\ calls' = calls
    /\ UNCHANGED <<argVars, domain, url, thickResponse, registrars, resellers, legacyVars>>

\* index.ts:163-175, 411-416: the thick fetch answers; the call goes on to the
\* extraction of the thick document, of the thin one, or returns
ThickFetch(p, C) ==
    /\ pc[p] = "thick"
    /\ \E o \in C.thick :
          LET thick == ThickOf(o)
          IN  /\ replies' = Log(replies, p, ThickReply(o))
              /\ thickResponse' = Set(thickResponse, p, thick)
              /\ IF Usable(thick)
                 THEN /\ pc' = Set(pc, p, "extract")
                      /\ UNCHANGED <<response, outcome>>
                 ELSE IF Usable(thinResponse[p])
                 THEN /\ pc' = Set(pc, p, "merge")
                      /\ UNCHANGED <<response, outcome>>
                 ELSE Return(p, Assemble(response[p], domain[p], thinResponse[p], thick))
    /\ UNCHANGED <<argVars, domain, url, thinResponse, thickRdap, registrars, resellers,
                   legacyVars, calls, failure>>

\* index.ts:411-413: the extraction of the thick document has run (it awaits the
\* registrar table); its candidates are in the arrays of the call
Extract(p) ==
    /\ pc[p] = "extract"
    /\ registrars' = Push(registrars, p, PushedRegistrars(thickResponse[p], domain[p]))
    /\ resellers' = Push(resellers, p, PushedResellers(thickResponse[p]))
    /\ pc' = Set(pc, p, "merge")
    /\ UNCHANGED <<argVars, outcome, domain, url, response, thinResponse, thickResponse,
                   thickRdap, legacyVars, calls, replies, failure>>

\* index.ts:414-469: the extraction of the thin document has run; the record is
\* assembled from the arrays of the call and returned
Merge(p) ==
    /\ pc[p] = "merge"
    /\ registrars' = Push(registrars, p, PushedRegistrars(thinResponse[p], domain[p]))
    /\ resellers' = Push(resellers, p, PushedResellers(thinResponse[p]))
    /\ Return(p, AssembleFrom(response[p], domain[p], thinResponse[p], thickResponse[p],
                              registrars'[p], resellers'[p]))
    /\ UNCHANGED <<argVars, domain, url, thinResponse, thickResponse, thickRdap,
                   legacyVars, calls, replies, failure>>

-----------------------------------------------------------------------------
(* The legacy path.                                                        *)

\* an answer of fetch(...).then(r => r.text()) or of a read: a rejection or a text
Failed(message) == [kind |-> "reject", message |-> message, text |-> <<>>]
Text(text) == [kind |-> "text", message |-> "", text |-> text]

\* port43.ts:74-77, 107-283: the mirror page answers
MirrorFetch(p, C) ==
    /\ pc[p] = "mirror"
    /\ \E o \in C.pages :
          /\ replies' = Log(replies, p, Plain("mirror", o.kind, o.message))
          /\ IF o.kind = "reject"
             THEN /\ Fail43(p, o.message)
                  /\ port43response' = port43response
             ELSE /\ port43response' = Set(port43response, p, o.text)
                  /\ \E effect \in C.effects :
                        Finish43(p, [response[p] EXCEPT !.server = whoisServer[p].url],
                                 o.text, effect)
    /\ UNCHANGED <<argVars, domain, url, rdapVars, whoisServer, socket, calls>>

\* how the third-party page answered: "reject", "empty" (no payload in the page)
\* or "text"
PageKind(o) == IF o.kind = "text" /\ o.text = <<>> THEN "empty" ELSE o.kind

\* a third-party step that opens the socket whatever the page held
ThirdPartyThenSocket(p, C) ==
    /\ pc[p] = "thirdParty"
    /\ \E o \in C.pages :
          /\ replies' = Log(replies, p, Plain("thirdParty", PageKind(o), o.message))
          /\ port43response' = Set(port43response, p, IF o.kind = "text" THEN o.text ELSE <<>>)
          /\ socket' = Set(socket, p, "created")
          /\ calls' = Log(calls, p, "socket.connect")
          /\ pc' = Set(pc, p, "connect")
          /\ UNCHANGED <<response, outcome, failure>>
    /\ UNCHANGED <<argVars, domain, url, rdapVars, whoisServer>>

\* port43.ts:80-87: the third-party page answers; without a payload the socket is
\* created and the connect is issued
ThirdParty(p, C) ==
    /\ pc[p] = "thirdParty"
    /\ \E o \in C.pages :
          LET payload == IF o.kind = "text" THEN o.text ELSE <<>>
          IN  /\ replies' = Log(replies, p, Plain("thirdParty", PageKind(o), o.message))
              /\ port43response' = Set(port43response, p, payload)
              /\ IF payload # <<>>
                 THEN /\ \E effect \in C.effects : Finish43(p, response[p], payload, effect)
                      /\ UNCHANGED <<socket, calls>>
                 ELSE /\ socket' = Set(socket, p, "created")
                      /\ calls' = Log(calls, p, "socket.connect")
                      /\ pc' = Set(pc, p, "connect")
                      /\ UNCHANGED <<response, outcome, failure>>
    /\ UNCHANGED <<argVars, domain, url, rdapVars, whoisServer>>

\* a socket operation failed: port43() does not close the socket in its catch block
\* (port43.ts:96-101); whether the failure itself tore the socket down is up to the
\* socket library, so both outcomes are possible
SockFail(p, C, message) ==
    /\ Fail43(p, message)
    /\ \E gone \in C.teardown :
          socket' = IF gone THEN Set(socket, p, "destroyed") ELSE socket

\* port43.ts:87-88: connect settles: "ok", or the message it failed with
SockConnect(p, C) ==
    /\ pc[p] = "connect"
    /\ \E o \in C.socketOps :
          /\ replies' = Log(replies, p, Plain("connect", IF o = "ok" THEN "ok" ELSE "reject",
                                        IF o = "ok" THEN "" ELSE o))
          /\ IF o = "ok"
             THEN /\ calls' = Log(calls, p, "socket.write")
                  /\ pc' = Set(pc, p, "write")
                  /\ UNCHANGED <<response, outcome, failure, socket>>
             ELSE /\ SockFail(p, C, o)
                  /\ calls' = calls
    /\ UNCHANGED <<argVars, domain, url, rdapVars, whoisServer, port43response>>

\* port43.ts:88-89: write settles
SockWrite(p, C) ==
    /\ pc[p] = "write"
    /\ \E o \in C.socketOps :
          /\ replies' = Log(replies, p, Plain("write", IF o = "ok" THEN "ok" ELSE "reject",
                                        IF o = "ok" THEN "" ELSE o))
          /\ IF o = "ok"
             THEN /\ calls' = Log(calls, p, "socket.readAll")
                  /\ pc' = Set(pc, p, "read")
                  /\ UNCHANGED <<response, outcome, failure, socket>>
             ELSE /\ SockFail(p, C, o)
                  /\ calls' = calls
    /\ UNCHANGED <<argVars, domain, url, rdapVars, whoisServer, port43response>>

\* port43.ts:89-93: readAll settles
SockRead(p, C) ==
    /\ pc[p] = "read"
    /\ \E o \in C.reads :
          /\ replies' = Log(replies, p, Plain("read", o.kind, o.message))
          /\ IF o.kind = "text"
             THEN /\ port43response' = Set(port43response, p, o.text)
                  /\ calls' = Log(calls, p, "socket.end")
                  /\ pc' = Set(pc, p, "end")
                  /\ UNCHANGED <<response, outcome, failure, socket>>
             ELSE /\ SockFail(p, C, o.message)
                  /\ UNCHANGED <<port43response, calls>>
    /\ UNCHANGED <<argVars, domain, url, rdapVars, whoisServer>>

\* port43.ts:93, 107-283: end settles
SockEnd(p, C) ==
    /\ pc[p] = "end"
    /\ \E o \in C.socketOps :
          /\ replies' = Log(replies, p, Plain("end", IF o = "ok" THEN "ok" ELSE "reject",
                                        IF o = "ok" THEN "" ELSE o))
          /\ IF o = "ok"
             THEN /\ socket' = Set(socket, p, "ended")
                  /\ \E effect \in C.effects :
                        Finish43(p, response[p], port43response[p], effect)
             ELSE SockFail(p, C, o)
    /\ UNCHANGED <<argVars, domain, url, rdapVars, whoisServer, port43response, calls>>

NextOf(C) ==
    \E p \in C.lookups :
        \/ Validate(p)
        \/ Route(p, C)
        \/ Dns(p, C)
        \/ Port43(p, C)
        \/ ThinFetch(p, C)
        \/ ThickFetch(p, C)
        \/ Extract(p)
        \/ Merge(p)
        \/ MirrorFetch(p, C)
        \/ ThirdParty(p, C)
        \/ SockConnect(p, C)
        \/ SockWrite(p, C)
        \/ SockRead(p, C)
        \/ SockEnd(p, C)
        \/ ParserDone(p)

-----------------------------------------------------------------------------
(* The values the lookups are run on.                                      *)

Run(ch, n) == [ch |-> ch, n |-> n]

\* " A.a ", "1.1", "a.is", and arguments validateDomain rejects
CoreInputs ==
    { StrVal(<<Run(" ", 1), Run("A", 1), Run(".", 1), Run("a", 1), Run(" ", 1)>>),
      StrVal(<<Run("1", 1), Run(".", 1), Run("1", 1)>>),
      StrVal(<<Run("a", 1), Run(".", 1), Run("I", 1), Run("S", 1)>>),
      StrVal(<<Run(" ", 1)>>),
      [type |-> "undefined", str |-> <<>>] }

AllOptions == [thinOnly : BOOLEAN, server : {"", "https://override.example"}]

ClientHold == Token("client", "Hold", "clientHold")
ClientHoldSpaced == Token("client", "Hold", "client hold")
ServerHold == Token("server", "Hold", "serverHold")
Ok == Token("", "ok", "ok")
Active == Token("", "ok", "active")

Iso(t) == EventDate("iso", t)

Link(rel, type, href) == [rel |-> rel, type |-> type, href |-> href, value |-> href]

\* a registrar with an IANA id and a contact card
Registrar146 ==
    [BaseEntity EXCEPT
        !.roles = {"registrar"},
        !.publicIds = [form |-> "array", ids |-> <<PublicId("IANA Registrar ID", "", "146")>>],
        !.vcardArray = [NoVcard EXCEPT !.present = TRUE, !.fn = "GoDaddy"]]

\* a registrar known by its contact card only, with a non-numeric handle
RegistrarCard ==
    [BaseEntity EXCEPT
        !.roles = {"registrar"},
        !.vcardArray = [NoVcard EXCEPT !.present = TRUE, !.fn = "Gandi SAS"],
        !.handle = "REG-1",
        !.events = [present |-> TRUE, list |-> <<Event("registration", Iso(4))>>]]

Reseller ==
    [BaseEntity EXCEPT
        !.roles = {"reseller"},
        !.vcardArray = [NoVcard EXCEPT !.present = TRUE, !.org = "Reseller Ltd"]]

Technical ==
    [BaseEntity EXCEPT
        !.roles = {"technical"},
        !.handle = "777",
        !.vcardArray = [NoVcard EXCEPT !.present = TRUE, !.fn = "ISNIC"]]

ThinFull ==
    [BaseDoc EXCEPT
        !.links = <<Link("self", "application/rdap+json", "https://rdap.example/domain/a.a"),
                    Link("related", "application/rdap+json", "https://thick.example/domain/a.a")>>,
        !.entities = [form |-> "array", items |-> <<Registrar146, Technical>>],
        !.status = <<ClientHold, Active, Ok>>,
        !.nameservers = [present |-> TRUE,
                         list |-> <<Nameserver(<<"B", "1">>, <<>>, <<>>),
                                    Nameserver(<<>>, <<"a", "1">>, <<>>)>>],
        !.events = <<Event("registration", Iso(2)), Event("expiration", EventDate("bad", 0)),
                     Event("Expiration", EventDate("plus0000Z", 6))>>]

\* the entities serialized as an object with numeric keys
ThinConfused ==
    [BaseDoc EXCEPT
        !.rdapConformance0 = TRUE,
        !.entities = [form |-> "object",
                      items |-> <<Keyed(1, Reseller), Keyed(0, RegistrarCard)>>],
        !.status = <<ServerHold>>]

ThinError == [BaseDoc EXCEPT !.errorCode = TRUE]

\* an IP network
ThinNetwork ==
    [BaseDoc EXCEPT
        !.handle = "NET-1-0-0-0-1",
        !.port43 = "whois.arin.net",
        !.status = <<Active>>,
        !.events = <<Event("last changed", Iso(5))>>]

\* an IP network document that carries no handle
ThinNoHandle == [ThinNetwork EXCEPT !.handle = ""]

ThickFull ==
    [BaseDoc EXCEPT
        !.entities = [form |-> "array", items |-> <<RegistrarCard, Reseller>>],
        !.status = <<ServerHold, ClientHoldSpaced>>,
        !.nameservers = [present |-> TRUE, list |-> <<Nameserver(<<"A">>, <<>>, <<>>)>>],
        !.events = <<Event("registration", Iso(1)), Event("last changed", Iso(7))>>]

ThickErrorCode == [ThickFull EXCEPT !.errorCode = TRUE]
ThickError == [ThickFull EXCEPT !.error = TRUE]

CoreThin ==
    { Rejected("fetch failed"),
      Http(404, "Not Found", NoDoc),
      Http(199, "Early", NoDoc),
      Http(400, "Bad Request", NoDoc),
      Http(399, "Redirect", BaseDoc),
      Http(200, "OK", NoDoc),
      Http(200, "OK", BaseDoc),
      Http(200, "OK", ThinFull),
      Http(200, "OK", ThinConfused),
      Http(200, "OK", ThinError),
      Http(200, "OK", ThinNetwork),
      Http(200, "OK", ThinNoHandle) }

CoreThick ==
    { Rejected("fetch failed"),
      Http(200, "OK", NoDoc),
      Http(404, "Not Found", ThickErrorCode),
      Http(200, "OK", ThickError),
      Http(200, "OK", BaseDoc),
      Http(200, "OK", ThickFull) }

TextFull ==
    << Line("other", ""),
       Line("registrarUrl", "GoDaddy.com"),
       Line("registrar", "Gandi SAS"),
       Line("status", <<ClientHold, Active>>),
       Line("status", <<Ok>>),
       Line("ns", <<"B", "1">>),
       Line("ns", <<>>),
       Line("ns", <<"a", "1">>),
       Line("created", EventDate("dmy", 2)),
       Line("expires", EventDate("bad", 0)) >>

TextSparse ==
    << Line("registrar", "Example Registrar"),
       Line("ianaId", "1068"),
       Line("reseller", "Reseller Ltd"),
       Line("updated", Iso(5)),
       Line("domainStatus", <<Ok, ServerHold, Ok>>),
       Line("nsBracket", <<"a">>),
       Line("nsBlock", <<<<"b">>, <<"A">>>>) >>

TextNotFound == << Line("other", ""), Line("nf", "No match"), Line("registrar", "Gandi SAS") >>

CorePages == { Failed("fetch failed"), Text(<<>>), Text(TextFull), Text(TextNotFound) }

CoreReads ==
    { Failed("Timeout"), Text(<<>>), Text(TextFull), Text(TextSparse), Text(TextNotFound) }

CoreSocketOps == {"ok", "ECONNRESET"}

\* an override parser that fills the registrar and the status
ParserEffect ==
    [NoEffect EXCEPT !.name = "NameCheap, Inc.", !.status = <<Canonical("", "ok")>>]

CoreServers == { NoServer, HostServer("whois.example"), MirrorServer("https://mirror.example/") }

Core ==
    [lookups |-> {"a"},
     apis |-> {"whois", "port43"},
     inputs |-> CoreInputs,
     options |-> AllOptions,
     urls |-> {"", "https://rdap.example"},
     dns |-> {"addresses", "empty", "fail"},
     servers |-> CoreServers,
     thin |-> CoreThin,
     thick |-> CoreThick,
     pages |-> CorePages,
     socketOps |-> CoreSocketOps,
     reads |-> CoreReads,
     effects |-> {NoEffect, ParserEffect},
     teardown |-> BOOLEAN]

Init == InitOf(Core)
Next == NextOf(Core)
Spec == Init /\ [][Next]_vars

-----------------------------------------------------------------------------
(* Validation on its own: whois() on every target of up to MaxRuns runs,   *)
(* the runs 1, 252 or 253 characters long, and on values of other types.   *)

MaxRuns == 3

RunChars == {"a", "A", " ", "1"}
RunLengths == {1, MaxDomainLength - 1, MaxDomainLength}
Runs == {Run(c, n) : c \in RunChars, n \in RunLengths}

RunStrings ==
    {s \in UNION {[1..k -> Runs] : k \in 0..MaxRuns} : Canon(s) = s}

ValidateInputs == {StrVal(s) : s \in RunStrings} \cup NonStrings

Validation ==
    [Core EXCEPT
        !.apis = {"whois"},
        !.inputs = ValidateInputs,
        !.options = {[thinOnly |-> FALSE, server |-> ""]}]

InitValidate == InitOf(Validation)
NextValidate == \E p \in Validation.lookups : Validate(p)
SpecValidate == InitValidate /\ [][NextValidate]_vars

-----------------------------------------------------------------------------
(* The status reconciliation on its own: RDAP lookups of one domain whose  *)
(* thin and thick documents carry every status list of up to MaxStatus     *)
(* tokens.                                                                 *)

MaxStatus == 2

ClientXfer == Token("client", "TransferProhibited", "clientTransferProhibited")

StatusTokenSet == {ClientHold, ServerHold, ClientXfer, Ok, Active}
StatusLists == UNION {[1..k -> StatusTokenSet] : k \in 0..MaxStatus}

Reconciliation ==
    [Core EXCEPT
        !.apis = {"whois"},
        !.inputs = {StrVal(<<Run("a", 1), Run(".", 1), Run("a", 1)>>)},
        !.options = [thinOnly : BOOLEAN, server : {""}],
        !.urls = {"https://rdap.example"},
        !.dns = {"addresses"},
        !.servers = {NoServer},
        !.thin = {Http(200, "OK", [BaseDoc EXCEPT !.status = s]) : s \in StatusLists},
        !.thick = {Http(200, "OK", [BaseDoc EXCEPT !.status = s]) : s \in StatusLists}
                  \cup {Rejected("fetch failed")}]

InitStatus == InitOf(Reconciliation)
NextStatus ==
    \E p \in Reconciliation.lookups :
        \/ Validate(p)
        \/ Route(p, Reconciliation)
        \/ Dns(p, Reconciliation)
        \/ ThinFetch(p, Reconciliation)
        \/ ThickFetch(p, Reconciliation)
        \/ Extract(p)
        \/ Merge(p)
SpecStatus == InitStatus /\ [][NextStatus]_vars

-----------------------------------------------------------------------------
(* Two lookups side by side, over RDAP or a legacy mirror, interleaved at   *)
(* every suspension point, to compare what they return.                    *)

Pair ==
    [Core EXCEPT
        !.lookups = {"a", "b"},
        !.apis = {"whois"},
        !.inputs = {StrVal(<<Run("a", 1), Run(".", 1), Run("I", 1), Run("S", 1)>>)},
        !.urls = {"https://rdap.example", ""},
        !.dns = {"addresses"},
        !.servers = {NoServer, MirrorServer("https://mirror.example/")},
        !.thin = {Http(200, "OK", ThinFull), Http(200, "OK", ThinConfused)},
        !.thick = CoreThick,
        !.pages = {Text(TextFull), Failed("fetch failed")},
        !.effects = {NoEffect}]

InitPair == InitOf(Pair)
NextPair ==
    \E p \in Pair.lookups :
        \/ Validate(p)
        \/ Route(p, Pair)
        \/ Dns(p, Pair)
        \/ ThinFetch(p, Pair)
        \/ ThickFetch(p, Pair)
        \/ Extract(p)
        \/ Merge(p)
        \/ MirrorFetch(p, Pair)
SpecPair == InitPair /\ [][NextPair]_vars

-----------------------------------------------------------------------------
(* The timestamps on their own: RDAP lookups of one domain whose thin      *)
(* document carries every event list of up to MaxEvents events and whose   *)
(* thick document carries at most one event.                               *)

MaxEvents == 2

EventActions == {"registration", "Last Changed", "expiration", "expiration date"}
ThinEventSet == {Event(a, d) : a \in EventActions, d \in {Iso(1), Iso(2), EventDate("bad", 0)}}
ThickEventSet == {Event(a, d) : a \in EventActions, d \in {Iso(4), EventDate("bad", 0)}}
ThinEventLists == UNION {[1..k -> ThinEventSet] : k \in 0..MaxEvents}
ThickEventLists == {<<>>} \cup {<<e>> : e \in ThickEventSet}

Timestamps ==
    [Core EXCEPT
        !.apis = {"whois"},
        !.inputs = {StrVal(<<Run("a", 1), Run(".", 1), Run("a", 1)>>)},
        !.options = [thinOnly : BOOLEAN, server : {""}],
        !.urls = {"https://rdap.example"},
        !.dns = {"addresses"},
        !.servers = {NoServer},
        !.thin = {Http(200, "OK", [BaseDoc EXCEPT !.events = s]) : s \in ThinEventLists},
        !.thick = {Http(200, "OK", [BaseDoc EXCEPT !.events = s]) : s \in ThickEventLists}
                  \cup {Rejected("fetch failed")}]

InitEvents == InitOf(Timestamps)
NextEvents ==
    \E p \in Timestamps.lookups :
        \/ Validate(p)
        \/ Route(p, Timestamps)
        \/ Dns(p, Timestamps)
        \/ ThinFetch(p, Timestamps)
        \/ ThickFetch(p, Timestamps)
        \/ Extract(p)
        \/ Merge(p)
SpecEvents == InitEvents /\ [][NextEvents]_vars

-----------------------------------------------------------------------------
(* The entity collection on its own: thin-only RDAP lookups whose document  *)
(* carries the entities field in every form, as a sequence of up to        *)
(* MaxEntities entities or as an object listing the keys in any order.     *)

MaxEntities == 2

EntitySet == {Registrar146, RegistrarCard, Reseller, Technical}
EntityLists == UNION {[1..k -> EntitySet] : k \in 0..MaxEntities}
Orders(n) == {f \in [1..n -> 1..n] : \A i, j \in 1..n : f[i] = f[j] => i = j}

\* the object with keys 0..n-1 that holds list[k + 1] at key k and lists its
\* properties in the order f
AsObject(list, f) ==
    [form |-> "object", items |-> [i \in 1..Len(list) |-> Keyed(f[i] - 1, list[f[i]])]]

EntityFields ==
    {[form |-> "array", items |-> l] : l \in EntityLists}
    \cup UNION {{AsObject(l, f) : f \in Orders(Len(l))} : l \in EntityLists}
    \cup {[form |-> x, items |-> <<>>] : x \in {"absent", "null", "scalar"}}

Collection ==
    [Core EXCEPT
        !.apis = {"whois"},
        !.inputs = {StrVal(<<Run("a", 1), Run(".", 1), Run("a", 1)>>),
                    StrVal(<<Run("a", 1), Run(".", 1), Run("I", 1), Run("S", 1)>>)},
        !.options = {[thinOnly |-> TRUE, server |-> ""]},
        !.urls = {"https://rdap.example"},
        !.dns = {"addresses"},
        !.servers = {NoServer},
        !.thin = {Http(200, "OK", [BaseDoc EXCEPT !.entities = e, !.rdapConformance0 = c]) :
                    e \in EntityFields, c \in BOOLEAN}]

InitEntities == InitOf(Collection)
NextEntities ==
    \E p \in Collection.lookups :
        \/ Validate(p)
        \/ Route(p, Collection)
        \/ Dns(p, Collection)
        \/ ThinFetch(p, Collection)
        \/ Merge(p)
SpecEntities == InitEntities /\ [][NextEntities]_vars

-----------------------------------------------------------------------------
(* The registrar rules on their own: thin-only RDAP lookups whose document  *)
(* holds one registrar-role entity, with every combination of public       *)
(* identifiers (absent, a list, a single object, an unrecognized type),    *)
(* contact card and handle.                                                *)

IdLists(n) ==
    {NoIds,
     [form |-> "array", ids |-> <<PublicId("IANA Registrar ID", "", n)>>],
     [form |-> "object", ids |-> <<PublicId("IANA Registrar ID", "", n)>>]}

Cards ==
    {NoVcard,
     [NoVcard EXCEPT !.present = TRUE, !.marker = TRUE, !.pos1 = "CA Registrar Inc",
                     !.fn = "Gandi SAS"],
     [NoVcard EXCEPT !.present = TRUE, !.fn = "Gandi SAS"],
     [NoVcard EXCEPT !.present = TRUE, !.org = "Org Ltd"]}

RuleEntities ==
    {[BaseEntity EXCEPT !.roles = {"registrar"}, !.publicIds = a, !.publicIDs = b,
                        !.vcardArray = card, !.handle = h] :
        a \in IdLists("146")
              \cup {[form |-> "array", ids |-> <<PublicId("Vendor ID", "", "9")>>]},
        b \in IdLists("1068"), card \in Cards, h \in {"", "REG-1", "9"}}

Rules ==
    [Core EXCEPT
        !.apis = {"whois"},
        !.inputs = {StrVal(<<Run("a", 1), Run(".", 1), Run("a", 1)>>)},
        !.options = {[thinOnly |-> TRUE, server |-> ""]},
        !.urls = {"https://rdap.example"},
        !.dns = {"addresses"},
        !.servers = {NoServer},
        !.thin = {Http(200, "OK", [BaseDoc EXCEPT !.entities = [form |-> "array", items |-> <<e>>]]) :
                    e \in RuleEntities}]

InitRules == InitOf(Rules)
NextRules ==
    \E p \in Rules.lookups :
        \/ Validate(p)
        \/ Route(p, Rules)
        \/ Dns(p, Rules)
        \/ ThinFetch(p, Rules)
        \/ Merge(p)
SpecRules == InitRules /\ [][NextRules]_vars

-----------------------------------------------------------------------------
(* The candidate ranking on its own: RDAP lookups whose thin document holds *)
(* two registrars and whose thick document holds a third, each with a      *)
(* registration date before or after the year 2000 (DateOfZero) or none.   *)

RegistrationLists ==
    {NoEvents} \cup {[present |-> TRUE, list |-> <<Event("registration", Iso(t))>>] :
                        t \in {1, 2, 4, 5}}

Ranked(name, events) ==
    [BaseEntity EXCEPT !.roles = {"registrar"}, !.handle = name, !.events = events]

Ranking ==
    [Core EXCEPT
        !.apis = {"whois"},
        !.inputs = {StrVal(<<Run("a", 1), Run(".", 1), Run("a", 1)>>)},
        !.options = {[thinOnly |-> FALSE, server |-> ""]},
        !.urls = {"https://rdap.example"},
        !.dns = {"addresses"},
        !.servers = {NoServer},
        !.thin = {Http(200, "OK", [BaseDoc EXCEPT !.entities =
                      [form |-> "array", items |-> <<Ranked("First", a), Ranked("Second", b)>>]]) :
                    a \in RegistrationLists, b \in RegistrationLists},
        !.thick = {Rejected("fetch failed")}
                  \cup {Http(200, "OK", [BaseDoc EXCEPT !.entities =
                           [form |-> "array", items |-> <<Ranked("Thick", c)>>]]) :
                         c \in RegistrationLists}]

InitRanking == InitOf(Ranking)
NextRanking ==
    \E p \in Ranking.lookups :
        \/ Validate(p)
        \/ Route(p, Ranking)
        \/ Dns(p, Ranking)
        \/ ThinFetch(p, Ranking)
        \/ ThickFetch(p, Ranking)
        \/ Extract(p)
        \/ Merge(p)
SpecRanking == InitRanking /\ [][NextRanking]_vars

-----------------------------------------------------------------------------
(* The generic fallback extraction on its own: legacy lookups whose reply  *)
(* holds a line for every label alternative of every field, the later      *)
(* alternatives first in the text, or only the alternatives from some rank *)
(* on, and whose override parser populated any subset of the fields.       *)

FallbackFull ==
    << Line("nsColon", <<<<"e">>>>),
       Line("nsListed", <<<<"d">>>>),
       Line("nsBlock", <<<<"c">>>>),
       Line("nsBracket", <<"b">>),
       Line("ns", <<"A">>),
       Line("domainStatus", <<ServerHold>>),
       Line("status", <<ClientHold>>),
       Line("expiresRecord", Iso(6)),
       Line("expires", Iso(5)),
       Line("createdRecord", Iso(2)),
       Line("created", Iso(1)),
       Line("updatedBracket", Iso(4)),
       Line("updated", EventDate("bad", 0)),
       Line("reseller", "Reseller Ltd"),
       Line("ianaId", "146"),
       Line("registrarSection", "Online"),
       Line("registrarBlock", "Daddy"),
       Line("registrar", "Gandi SAS"),
       Line("registrarUrl", "GoDaddy.com") >>

\* the place of a label pattern among the alternatives of its field
Rank(k) ==
    CASE k \in {"registrar", "updatedBracket", "createdRecord", "expiresRecord",
                "domainStatus", "nsBracket"} -> 2
      [] k \in {"registrarBlock", "nsBlock"} -> 3
      [] k \in {"registrarSection", "nsListed"} -> 4
      [] k = "nsColon" -> 5
      [] OTHER -> 1

\* labels without a value, which the first alternative matches and captures nothing from
FallbackBare ==
    << Line("domainStatus", <<Ok>>), Line("status", <<>>),
       Line("nsBracket", <<"b">>), Line("ns", <<>>) >>

FallbackTexts ==
    {SelectSeq(FallbackFull, LAMBDA l : Rank(l.k) >= n) : n \in 1..5} \cup {FallbackBare}

FallbackFields ==
    {"name", "id", "reseller", "created", "updated", "expires", "status", "nameservers"}

FallbackEffects ==
    { [id |-> IF "id" \in S THEN "1068" ELSE "0",
       name |-> IF "name" \in S THEN "NameCheap, Inc." ELSE Null,
       reseller |-> IF "reseller" \in S THEN "Parser Reseller" ELSE Null,
       status |-> IF "status" \in S THEN <<Canonical("", "ok")>> ELSE <<>>,
       nameservers |-> IF "nameservers" \in S THEN <<<<"p">>>> ELSE <<>>,
       ts |-> [created |-> IF "created" \in S THEN 7 ELSE NullTs,
               updated |-> IF "updated" \in S THEN 8 ELSE NullTs,
               expires |-> IF "expires" \in S THEN 9 ELSE NullTs]] :
      S \in SUBSET FallbackFields }

Fallback ==
    [Core EXCEPT
        !.apis = {"port43"},
        !.inputs = {StrVal(<<Run("a", 1), Run(".", 1), Run("a", 1)>>)},
        !.options = {[thinOnly |-> FALSE, server |-> ""]},
        !.servers = {HostServer("whois.example"), MirrorServer("https://mirror.example/")},
        !.pages = {Text(t) : t \in FallbackTexts} \cup {Failed("fetch failed")},
        !.reads = {Text(t) : t \in FallbackTexts} \cup {Failed("Timeout")},
        !.socketOps = {"ok"},
        !.effects = FallbackEffects]

InitFallback == InitOf(Fallback)
NextFallback ==
    \E p \in Fallback.lookups :
        \/ Port43(p, Fallback)
        \/ MirrorFetch(p, Fallback)
        \/ ThirdParty(p, Fallback)
        \/ SockConnect(p, Fallback)
        \/ SockWrite(p, Fallback)
        \/ SockRead(p, Fallback)
        \/ SockEnd(p, Fallback)
        \/ ParserDone(p)
SpecFallback == InitFallback /\ [][NextFallback]_vars

-----------------------------------------------------------------------------
(* The registrar identity resolver on its own: legacy lookups whose reply  *)
(* names the registrar in every way the three passes tell apart.           *)

ResolverNames ==
    {"GoDaddy", "GODADDY", "GoDaddy.com, LLC", "godaddy.com, llc", "GoDaddy.com", "Online",
     "Daddy", "NameCheap, Inc.", "NameCheap, LLC", ", Ltd", "Gandi SAS"}

ResolverTexts ==
    {<<Line("registrar", n)>> : n \in ResolverNames}
    \cup {<<Line("registrar", n), Line("ianaId", "9")>> : n \in {"GoDaddy", "Gandi SAS"}}
    \cup {<<Line("other", "")>>}

Resolver ==
    [Core EXCEPT
        !.apis = {"port43"},
        !.inputs = {StrVal(<<Run("a", 1), Run(".", 1), Run("a", 1)>>)},
        !.options = {[thinOnly |-> FALSE, server |-> ""]},
        !.servers = {HostServer("whois.example"), MirrorServer("https://mirror.example/")},
        !.pages = {Text(t) : t \in ResolverTexts} \cup {Failed("fetch failed")},
        !.reads = {Text(t) : t \in ResolverTexts} \cup {Failed("Timeout")},
        !.effects = {NoEffect, ParserEffect}]

InitResolver == InitOf(Resolver)
NextResolver ==
    \E p \in Resolver.lookups :
        \/ Port43(p, Resolver)
        \/ MirrorFetch(p, Resolver)
        \/ ThirdParty(p, Resolver)
        \/ SockConnect(p, Resolver)
        \/ SockWrite(p, Resolver)
        \/ SockRead(p, Resolver)
        \/ SockEnd(p, Resolver)
        \/ ParserDone(p)
SpecResolver == InitResolver /\ [][NextResolver]_vars

-----------------------------------------------------------------------------
(* Properties.                                                             *)

Lookups == DOMAIN pc

Returned(p) == outcome[p] = "resolved"

\* the answer the operation op of lookup p got, if it got one
Answered(p, op) == \E i \in 1..Len(replies[p]) : replies[p][i].op = op
AnswerOf(p, op) == replies[p][CHOOSE i \in 1..Len(replies[p]) : replies[p][i].op = op]

Issued(p, op) == Includes(calls[p], op)

\* a record without data: only found, statusCode and error say something
IsBlank(rec) ==
    /\ rec.registrar = [id |-> "0", name |-> Null]
    /\ rec.reseller = Null
    /\ rec.status = <<>>
    /\ rec.nameservers = <<>>
    /\ rec.ts = [created |-> NullTs, updated |-> NullTs, expires |-> NullTs]
    /\ rec.identity = NoIdentity

\* C1: whois() resolves to a record and never rejects, whatever the target, the
\* options and the collaborators' answers, also when the thin fetch fails or
\* answers outside [200,400) while an override server is configured.
C1_NeverRejects ==
    \A p \in Lookups : api[p] = "whois" => outcome[p] # "rejected"

AllWhitespace(s) == \A i \in 1..Len(s) : s[i].ch \in Whitespace

\* the number of characters between the first and the last non-blank one
TrimmedLength(s) ==
    IF AllWhitespace(s) THEN 0
    ELSE StrLen(s) - (IF s[1].ch \in Whitespace THEN s[1].n ELSE 0)
                   - (IF s[Len(s)].ch \in Whitespace THEN s[Len(s)].n ELSE 0)

Invalid(v) ==
    \/ v.type # "string"
    \/ v.str = <<>>
    \/ AllWhitespace(v.str)
    \/ TrimmedLength(v.str) > MaxDomainLength

\* C2: whois() returns the 400 record with its blank fields and calls no
\* collaborator exactly when the argument is not a string, is empty, is blank, or
\* is longer than 253 characters after trimming; every other argument goes on,
\* trimmed and lower-cased, to the routing lookup.
C2_ValidationRecord ==
    \A p \in Lookups :
        (api[p] = "whois" /\ pc[p] # "start") =>
            IF Invalid(input[p])
            THEN /\ pc[p] = "done" /\ Returned(p)
                 /\ response[p].error \in {"Domain must be a non-empty string",
                                           "Domain name too long"}
                 /\ response[p] = BlankRecord(FALSE, 400, response[p].error)
                 /\ response[p].statusDelta = <<>> /\ IsBlank(response[p])
                 /\ calls[p] = <<>>
            ELSE /\ calls[p] # <<>> /\ calls[p][1] = "tldToRdap"
                 /\ domain[p] = ToLowerCase(Trim(input[p].str))
                 /\ StrLen(domain[p]) = TrimmedLength(input[p].str)
                 /\ StrLen(domain[p]) <= MaxDomainLength
                 /\ \A i \in 1..Len(domain[p]) : domain[p][i].ch \notin {"A", "I", "S"}
                 /\ domain[p][1].ch \notin Whitespace
                 /\ domain[p][Len(domain[p])].ch \notin Whitespace

\* a padded target of more than 253 characters, 253 of them after trimming, went on
C2_Witness ==
    \E p \in Lookups :
        /\ pc[p] = "route"
        /\ StrLen(input[p].str) > MaxDomainLength
        /\ StrLen(domain[p]) = MaxDomainLength
        /\ calls[p] = <<"tldToRdap">>

\* C3: a lookup that obtained a thin document (status in [200,400), a body without
\* errorCode) returns found = true, for domains and for IP targets alike, also
\* for an IP document that carries no handle.
C3_ThinObtainedIsFound ==
    \A p \in Lookups :
        (Returned(p) /\ Answered(p, "thin") /\ AnswerOf(p, "thin").kind = "ok")
            => response[p].found

\* C4: a record returned by whois() or port43() with found = false carries no
\* partial data: only statusCode and error describe the outcome.
C4_NotFoundIsBlank ==
    \A p \in Lookups : (Returned(p) /\ ~response[p].found) => IsBlank(response[p])

\* C5: after a thin answer outside [200,400), or one whose body carries an
\* errorCode, and with no override server, the record is not found, carries the
\* thin answer's status and status text, and no thick fetch was issued.
C5_ThinErrorVerbatim ==
    \A p \in Lookups :
        (/\ api[p] = "whois" /\ pc[p] = "done"
         /\ options[p].server = ""
         /\ Answered(p, "thin") /\ AnswerOf(p, "thin").kind \in {"status", "errorCode"})
            => /\ Returned(p)
               /\ ~response[p].found
               /\ response[p].statusCode = AnswerOf(p, "thin").status
               /\ response[p].error = AnswerOf(p, "thin").statusText
               /\ ~Issued(p, "thickFetch")

\* the lookup of p ended on a transport failure: the last answer it got is a
\* rejection of the thin fetch, of the mirror fetch or of a socket operation
EndedOnFailure(p) ==
    /\ pc[p] = "done"
    /\ replies[p] # <<>>
    /\ replies[p][Len(replies[p])].kind = "reject"
    /\ replies[p][Len(replies[p])].op \in {"thin", "mirror", "connect", "write", "read"}

\* C6: a transport failure that ends a lookup yields found = false, statusCode 500
\* and the failure's message as the error.
C6_FailureIs500 ==
    \A p \in Lookups :
        EndedOnFailure(p)
            => /\ Returned(p)
               /\ ~response[p].found
               /\ response[p].statusCode = 500
               /\ response[p].error = replies[p][Len(replies[p])].message

ThickFailed(p) ==
    /\ Answered(p, "thick")
    /\ AnswerOf(p, "thick").kind \in {"reject", "nonjson", "errorCode", "error"}

\* p ran thin-only and q with a thick fetch, on the same target, override server
\* and valid thin document
SameButThick(p, q) ==
    /\ api[p] = "whois" /\ api[q] = "whois"
    /\ Returned(p) /\ Returned(q)
    /\ input[p] = input[q]
    /\ options[p].server = options[q].server
    /\ options[p].thinOnly /\ ~options[q].thinOnly
    /\ Answered(p, "thin") /\ Answered(q, "thin")
    /\ AnswerOf(p, "thin") = AnswerOf(q, "thin")
    /\ AnswerOf(p, "thin").kind = "ok"
    /\ thinResponse[p] = thinResponse[q]

\* C7: on a valid thin document, a lookup whose thick fetch rejects, answers with
\* no JSON, or answers with an errorCode or error body returns the record the
\* thin-only lookup returns: the thick failure changes no field.
C7_ThickFailureIsThinOnly ==
    \A p, q \in Lookups :
        (SameButThick(p, q) /\ ThickFailed(q)) => response[p] = response[q]

\* a thick answer full of data but marked with an errorCode was dropped, next to
\* a thin-only lookup that found a registrar
C7_Witness ==
    \E p, q \in Lookups :
        /\ SameButThick(p, q)
        /\ AnswerOf(q, "thick").kind = "errorCode"
        /\ response[q].found
        /\ response[q].registrar.id = "146"
        /\ response[q] = response[p]

\* st and a status of side are the same status, or differ by a client/server prefix
HeldBy(side, st) ==
    \E i \in 1..Len(side) :
        \/ side[i] = st
        \/ /\ side[i].rest = st.rest
           /\ {side[i].prefix, st.prefix} = {"client", "server"}

Entries(delta, st) == {i \in 1..Len(delta) : delta[i].status = st}

\* p returned the record of the merge (index.ts:418-469)
Merged(p) ==
    /\ api[p] = "whois" /\ Returned(p)
    /\ Answered(p, "thin") /\ AnswerOf(p, "thin").kind = "ok"

\* C8: statusDelta holds one entry {status, thin, thick} for exactly the statuses
\* of the thin/thick union held by one side and not by the other, a client/server
\* prefix swap counting as the same status; thin [clientHold] with thick
\* [serverHold] gives no entry, thin [ok] with thick [] gives {ok, true, false}.
C8_StatusDelta ==
    \A p \in Lookups :
        Merged(p) =>
            LET statusThin == findStatus(StatusOf(thinResponse[p]))
                statusThick == findStatus(StatusOf(thickResponse[p]))
                union == SeqToSet(statusThin) \cup SeqToSet(statusThick)
                delta == response[p].statusDelta
            IN  /\ SeqToSet(response[p].status) = union
                /\ \A i \in 1..Len(delta) :
                      /\ delta[i].status \in union
                      /\ delta[i].thin = HeldBy(statusThin, delta[i].status)
                      /\ delta[i].thick = HeldBy(statusThick, delta[i].status)
                /\ \A st \in union :
                      Cardinality(Entries(delta, st)) =
                          IF HeldBy(statusThin, st) # HeldBy(statusThick, st) THEN 1 ELSE 0
                /\ (statusThin = <<Canonical("client", "Hold")>>
                        /\ statusThick = <<Canonical("server", "Hold")>>)
                      => delta = <<>>
                /\ (statusThin = <<Canonical("", "ok")>> /\ statusThick = <<>>)
                      => delta = <<[status |-> Canonical("", "ok"),
                                    thin |-> TRUE, thick |-> FALSE]>>

\* thin [clientHold] met thick [serverHold]: both in the status list, no delta
C8_Witness ==
    \E p \in Lookups :
        /\ Merged(p)
        /\ StatusOf(thinResponse[p]) = <<ClientHold>>
        /\ StatusOf(thickResponse[p]) = <<ServerHold>>
        /\ Len(response[p].status) = 2
        /\ response[p].statusDelta = <<>>

\* C9: the status list of a record whois() returns holds no value twice, on the
\* RDAP path and on the legacy path, also when two upstream tokens or status
\* lines normalize to one status.
C9_StatusNoDuplicates ==
    \A p \in Lookups :
        (api[p] = "whois" /\ Returned(p)) => NoDuplicates(response[p].status)

\* C10: the nameservers of a found record are lower-cased and in ascending order,
\* on the RDAP path and on the legacy path.
C10_NameserversSorted ==
    \A p \in Lookups :
        (Returned(p) /\ response[p].found)
            => /\ IsLowerCased(response[p].nameservers)
               /\ IsSorted(response[p].nameservers)
               /\ \A i \in 1..Len(response[p].nameservers) :
                     response[p].nameservers[i] # <<>>

\* the field an event action maps to, "" when it maps to none
FieldOf(action) ==
    CASE action = "registration" -> "created"
      [] action = "last changed" -> "updated"
      [] action \in {"expiration", "expiration date"} -> "expires"
      [] OTHER -> ""

\* the events of the list, in order, that map to the field and carry a valid date
ValidFor(events, field) ==
    SelectSeq(events, LAMBDA ev : /\ FieldOf(LowerAction(ev.eventAction)) = field
                                  /\ ev.eventDate.raw \in {"iso", "plus0000Z"})

FirstFor(events, field) ==
    IF ValidFor(events, field) = <<>> THEN NullTs ELSE ValidFor(events, field)[1].eventDate.t

\* C11: each of created, updated and expires is the date of the first event, thick
\* events before thin events, whose action maps to the field and whose date is
\* valid, and null when there is none; so a valid thick event wins over a thin one.
C11_FirstValidEvent ==
    \A p \in Lookups :
        Merged(p) =>
            LET events == EventsOfDoc(thickResponse[p]) \o EventsOfDoc(thinResponse[p])
            IN  /\ response[p].ts.created = FirstFor(events, "created")
                /\ response[p].ts.updated = FirstFor(events, "updated")
                /\ response[p].ts.expires = FirstFor(events, "expires")

\* the legacy lookup of p acquired a reply and returned
Acquired(p) ==
    /\ Returned(p)
    /\ whoisServer[p].kind # "none"
    /\ replies[p] # <<>>
    /\ replies[p][Len(replies[p])].op \in {"mirror", "thirdParty", "end"}
    /\ replies[p][Len(replies[p])].kind # "reject"

\* the reply holds a line that begins with a no-record phrase
HasNoRecordLine(text) == \E i \in 1..Len(text) : text[i].k = "nf"
NoRecordPhrase(text) ==
    text[CHOOSE i \in 1..Len(text) : text[i].k = "nf" /\ \A j \in 1..(i - 1) : text[j].k # "nf"].v

\* C12: a legacy reply with a line that begins with a no-record phrase gives
\* found = false, statusCode 404 and the phrase as the error; neither the override
\* parser nor the generic extraction runs, the fields keep their defaults.
C12_NoRecordIs404 ==
    \A p \in Lookups :
        (Acquired(p) /\ HasNoRecordLine(port43response[p])) =>
            /\ ~response[p].found
            /\ response[p].statusCode = 404
            /\ response[p].error = NoRecordPhrase(port43response[p])
            /\ IsBlank(response[p])

\* a reply with a no-record phrase and a registrar line below it was answered with 404
C12_Witness ==
    \E p \in Lookups :
        /\ Acquired(p)
        /\ port43response[p] = TextNotFound
        /\ response[p].statusCode = 404
        /\ response[p].error = "No match"
        /\ response[p].registrar.name = Null

\* C13: port43() for a target without a legacy server descriptor returns found =
\* false, statusCode 405 and a non-empty error, and performs no network operation.
C13_NoServerIs405 ==
    \A p \in Lookups :
        (api[p] = "port43" /\ pc[p] # "start" /\ whoisServer[p].kind = "none") =>
            /\ pc[p] = "done" /\ Returned(p)
            /\ ~response[p].found
            /\ response[p].statusCode = 405
            /\ response[p].error # ""
            /\ calls[p] = <<>> /\ replies[p] = <<>>
            /\ socket[p] = "none"

\* port43() was called for such a target and has returned
C13_Witness ==
    \E p \in Lookups :
        /\ api[p] = "port43" /\ pc[p] = "done"
        /\ whoisServer[p] = NoServer
        /\ response[p].statusCode = 405
        /\ calls[p] = <<>>

\* C14: whenever port43() created the raw socket, the socket is closed before it
\* returns: after a successful read, and when connect, write or read fails or the
\* timeout fires.
C14_SocketClosed ==
    \A p \in Lookups :
        (pc[p] = "done" /\ Issued(p, "socket.connect")) => socket[p] \in {"ended", "destroyed"}

\* the table entries, in table order, that satisfy Hit
Hits(Hit(_)) == {i \in 1..Len(IanaTable) : Hit(IanaTable[i])}
FirstHit(Hit(_)) == IanaTable[CHOOSE i \in Hits(Hit) : \A j \in Hits(Hit) : i <= j].id

Equals(name, e) == e.name = name
ContainsWord(name, e) == WordMatch(NameTokens(name), NameTokens(e.name))
ContainsHead(name, e) == WordMatch(BeforeComma(NameTokens(name)), NameTokens(e.name))

\* the legacy lookup of p extracted a registrar name and no id
NameWithoutId(p) ==
    /\ Acquired(p) /\ response[p].found
    /\ ~HasLine(port43response[p], "ianaId")
    /\ response[p].registrar.name \notin {Null, ""}

\* C15: with a registrar name extracted and the id still 0, the id is that of the
\* first table entry equal to the name; else of the first entry that contains the
\* name at word boundaries, whatever the case; else of the first entry that
\* contains the part of the name before its first comma; else 0.  An exact match
\* wins over a containing entry that stands earlier in the table.  The lookup
\* returns in every case.
C15_RegistrarResolver ==
    \A p \in Lookups :
        /\ NameWithoutId(p) =>
              LET name == response[p].registrar.name
              IN  response[p].registrar.id =
                      IF Hits(LAMBDA e : Equals(name, e)) # {}
                          THEN FirstHit(LAMBDA e : Equals(name, e))
                      ELSE IF Hits(LAMBDA e : ContainsWord(name, e)) # {}
                          THEN FirstHit(LAMBDA e : ContainsWord(name, e))
                      ELSE IF Hits(LAMBDA e : ContainsHead(name, e)) # {}
                          THEN FirstHit(LAMBDA e : ContainsHead(name, e))
                      ELSE "0"
        /\ (Acquired(p) /\ response[p].found /\ HasLine(port43response[p], "ianaId"))
              => response[p].registrar.id = FirstLine(port43response[p], "ianaId").v
        /\ (api[p] = "port43") => outcome[p] # "rejected"

\* the name GoDaddy got the id of the entry equal to it, the last of the table,
\* although the first entry of the table contains it
C15_Witness ==
    \E p \in Lookups :
        /\ NameWithoutId(p)
        /\ response[p].registrar.name = "GoDaddy"
        /\ ContainsWord("GoDaddy", IanaTable[1])
        /\ response[p].registrar.id = IanaTable[Len(IanaTable)].id

\* the record an RDAP lookup returns from the two documents its own fetches
\* answered with, and the record a legacy lookup returns from its own mirror page
AloneRdap(p) ==
    Assemble([BlankRecord(FALSE, 0, "") EXCEPT !.statusCode = AnswerOf(p, "thin").status],
             Sanitized(input[p]), thinResponse[p], thickResponse[p])
AloneLegacy(p) ==
    IF AnswerOf(p, "mirror").kind = "reject"
    THEN BlankRecord(FALSE, 500, AnswerOf(p, "mirror").message)
    ELSE Extract43([BlankRecord(TRUE, 200, "") EXCEPT !.server = whoisServer[p].url],
                   port43response[p], NoEffect)

\* the names a lookup's own documents give to registrars and resellers
OwnNames(p) ==
    {e.vcardArray.fn : e \in SeqToSet(EntityList(thinResponse[p]))}
    \cup {e.vcardArray.org : e \in SeqToSet(EntityList(thinResponse[p]))}
    \cup (IF Usable(thickResponse[p])
          THEN {e.vcardArray.fn : e \in SeqToSet(EntityList(thickResponse[p]))}
               \cup {e.vcardArray.org : e \in SeqToSet(EntityList(thickResponse[p]))}
          ELSE {})
    \cup {IanaName(id) : id \in NumericIds} \cup {"", Null}

\* C16: two lookups in one process, interleaved at every suspension point (routing,
\* DNS, thin fetch, thick fetch, the extraction's registrar-table lookup, legacy
\* acquisition), each return the record the lookup returns by itself on the same
\* answers; no registrar or reseller of one lookup is in the record of the other.
C16_LookupsIsolated ==
    \A p \in Lookups :
        /\ (Returned(p) /\ Answered(p, "thin")) =>
              /\ response[p] = AloneRdap(p)
              /\ response[p].reseller \in OwnNames(p)
              /\ registrars[p] = PushedRegistrars(thickResponse[p], domain[p])
                                    \o PushedRegistrars(thinResponse[p], domain[p])
        /\ (Returned(p) /\ Answered(p, "mirror")) => response[p] = AloneLegacy(p)

\* one lookup returned the registrar of its thin document, having got no usable
\* thick document, while the other, on another thin document, was suspended
\* between its two extractions with the candidates of its thick document pushed
C16_Witness ==
    \E p, q \in Lookups :
        /\ p # q
        /\ Returned(p) /\ Answered(p, "thick") /\ ~Usable(thickResponse[p])
        /\ response[p].registrar.id = "146"
        /\ response[p].reseller = ""
        /\ pc[q] = "merge" /\ registrars[q] # <<>> /\ resellers[q] # <<>>
        /\ thinResponse[q] # thinResponse[p]

\* the keys of the properties are 0..n-1
KeysAreIndices(props) == {props[j].key : j \in 1..Len(props)} = 0..(Len(props) - 1)

\* the n-element sequence of the values in numeric key order
InKeyOrder(props) ==
    [i \in 1..Len(props) |-> props[CHOOSE j \in 1..Len(props) : props[j].key = i - 1].value]

\* the document with its entities given as the sequence list
WithEntities(doc, list) == [doc EXCEPT !.entities = [form |-> "array", items |-> list]]

\* C17: an entities field serialized as a map with keys "0".."n-1" is collected
\* exactly like the sequence of its values in numeric key order: the same entity
\* list in the same order, the same registrar and reseller candidates and the
\* same registrar and reseller in the record.  An absent or null field gives the
\* empty list, and a sequence is taken as it is.
C17_MapLikeSequence ==
    \A p \in Lookups : Merged(p) =>
        LET doc == thinResponse[p]
            field == doc.entities
            same == WithEntities(doc, InKeyOrder(field.items))
        IN  /\ (field.form = "object" /\ KeysAreIndices(field.items)) =>
                  /\ EntityList(doc) = InKeyOrder(field.items)
                  /\ registrars[p] = PushedRegistrars(same, domain[p])
                  /\ resellers[p] = PushedResellers(same)
                  /\ response[p].registrar = PickRegistrar(PushedRegistrars(same, domain[p]))
                  /\ response[p].reseller = PickReseller(PushedResellers(same))
            /\ field.form \in {"absent", "null"} =>
                  /\ EntityList(doc) = <<>>
                  /\ registrars[p] = <<>> /\ resellers[p] = <<>>
                  /\ response[p].registrar = [id |-> "0", name |-> ""]
            /\ field.form = "array" =>
                  /\ EntityList(doc) = field.items
                  /\ registrars[p] = PushedRegistrars(doc, domain[p])

\* a map that lists key 1 before key 0 gave two registrar candidates, the one of
\* key 0 first
C17_Witness ==
    \E p \in Lookups :
        /\ Merged(p)
        /\ thinResponse[p].entities.form = "object"
        /\ Len(thinResponse[p].entities.items) = 2
        /\ thinResponse[p].entities.items[1] = Keyed(1, RegistrarCard)
        /\ thinResponse[p].entities.items[2] = Keyed(0, Registrar146)
        /\ Len(registrars[p]) = 2
        /\ registrars[p][1].id = "146"
        /\ registrars[p][2].name = "Gandi SAS"

\* whois() of p is past its routing decision
Routed(p) == api[p] = "whois" /\ Issued(p, "tldToRdap") /\ pc[p] \notin {"route", "dns"}

\* the routing table gave no URL (resolve4 is issued exactly for a URL), or DNS
\* failed or gave no address
NoLiveUrl(p) ==
    \/ ~Issued(p, "resolve4")
    \/ Answered(p, "dns") /\ AnswerOf(p, "dns").kind \in {"fail", "empty"}

HostResolved(p) == Answered(p, "dns") /\ AnswerOf(p, "dns").kind = "addresses"

\* the legacy extraction was invoked / an RDAP fetch was issued
Delegated(p) == Issued(p, "mirrorFetch") \/ Issued(p, "thirdPartyFetch")
RdapFetched(p) == Issued(p, "thinFetch") \/ Issued(p, "thickFetch")

\* the records port43() can return for p: a transport failure, or the extraction
\* of the reply it acquired under one of the override parsers
Port43Records(p) ==
    LET blank == [BlankRecord(TRUE, 200, "") EXCEPT
                     !.server = IF whoisServer[p].kind = "host" THEN whoisServer[p].host ELSE ""]
        served == [blank EXCEPT
                     !.server = IF whoisServer[p].kind = "host" THEN whoisServer[p].host
                                ELSE whoisServer[p].url]
    IN  {[blank EXCEPT !.found = FALSE, !.statusCode = 500, !.error = failure[p]]}
        \cup {Extract43(served, port43response[p], e) : e \in Core.effects}

\* C18: whois() hands the lookup to the legacy extraction exactly when no live RDAP
\* URL remains (the routing table gave none, or DNS for the URL's host failed or
\* gave no address) and the target has a legacy server; the record of the legacy
\* extraction is then returned as it is and no RDAP fetch is issued.  With no live
\* URL and no legacy server the thin fetch goes to https://rdap.org.  When the
\* host resolves the legacy extraction is never invoked.
C18_RouterDelegation ==
    \A p \in Lookups : Routed(p) =>
        /\ Delegated(p) <=> (NoLiveUrl(p) /\ whoisServer[p].kind # "none")
        /\ Delegated(p) =>
              /\ ~RdapFetched(p)
              /\ Returned(p) => response[p] \in Port43Records(p)
        /\ (NoLiveUrl(p) /\ whoisServer[p].kind = "none") =>
              /\ Issued(p, "thinFetch")
              /\ url[p] = "https://rdap.org"
        /\ HostResolved(p) =>
              /\ ~Delegated(p) /\ socket[p] = "none"
              /\ Issued(p, "thinFetch") /\ url[p] \notin {"", "https://rdap.org"}

\* DNS failed for the URL of a target that has a legacy host, and the lookup
\* returned what the socket's reply gave, without any RDAP fetch
C18_Witness ==
    \E p \in Lookups :
        /\ Routed(p) /\ Returned(p)
        /\ Answered(p, "dns") /\ AnswerOf(p, "dns").kind = "fail"
        /\ whoisServer[p].kind = "host"
        /\ Answered(p, "end")
        /\ response[p].found /\ response[p].statusCode = 200
        /\ response[p].registrar.name # Null
        /\ ~RdapFetched(p)

\* C19: a thick fetch is issued only if the caller did not ask for thin-only mode
\* and either the thin document has a related link of type application/rdap+json
\* whose href differs from the self link, or the caller configured an override
\* server; with no such link and no override server no thick fetch is issued.
C19_ThickOnlyWhenDerivable ==
    \A p \in Lookups :
        Issued(p, "thickFetch") =>
            /\ ~options[p].thinOnly
            /\ HasThickLink(thinResponse[p]) \/ options[p].server # ""

\* how many times the operation op was issued by p, and where first
Times(p, op) == Cardinality({i \in 1..Len(calls[p]) : calls[p][i] = op})
FirstAt(p, op) == CHOOSE i \in 1..Len(calls[p]) :
                     calls[p][i] = op /\ \A j \in 1..(i - 1) : calls[p][j] # op

LegacyOps == {"mirrorFetch", "thirdPartyFetch", "socket.connect", "socket.write",
              "socket.readAll", "socket.end"}

\* C20: the network operations of a lookup form one sequential pipeline without
\* retry: DNS resolution, the thin fetch and the thick fetch are each issued at
\* most once, the thick fetch only after the thin fetch has been answered, and no
\* lookup issues both an RDAP fetch and a legacy acquisition (mirror fetch,
\* third-party fetch or socket).
C20_OnePipeline ==
    \A p \in Lookups :
        /\ \A op \in {"resolve4", "thinFetch", "thickFetch"} : Times(p, op) <= 1
        /\ Issued(p, "thickFetch") =>
              /\ Issued(p, "thinFetch") /\ FirstAt(p, "thinFetch") < FirstAt(p, "thickFetch")
              /\ Answered(p, "thin")
        /\ Issued(p, "thinFetch") /\ Issued(p, "resolve4") =>
              /\ FirstAt(p, "resolve4") < FirstAt(p, "thinFetch")
              /\ Answered(p, "dns")
        /\ ~(RdapFetched(p) /\ \E op \in LegacyOps : Issued(p, op))

\* a lookup went through DNS, the thin fetch and the thick fetch, once each and in
\* that order, and returned; its thin fetch was answered with an error body and was
\* not repeated
C20_Witness ==
    \E p \in Lookups :
        /\ Returned(p)
        /\ calls[p] = <<"tldToRdap", "resolve4", "thinFetch", "thickFetch">>
        /\ AnswerOf(p, "thin").kind = "errorCode"
        /\ Answered(p, "thick")

SocketOps == {"socket.connect", "socket.write", "socket.readAll", "socket.end"}

\* op was issued by p, and before it the operation earlier
After(p, earlier, op) ==
    Issued(p, op) => (Issued(p, earlier) /\ FirstAt(p, earlier) < FirstAt(p, op))

\* C21: the legacy acquisition has a fixed order.  For a descriptor that names an
\* HTTP mirror only that mirror is fetched: no third-party fetch and no socket.
\* Otherwise the third-party mirror is fetched first and the socket is opened
\* only if that fetch failed or its page held no payload; when the page holds a
\* payload no socket is opened.  Each step is attempted at most once.
C21_AcquisitionOrder ==
    \A p \in Lookups :
        /\ Issued(p, "mirrorFetch") => whoisServer[p].kind = "mirror"
        /\ whoisServer[p].kind = "mirror" =>
              /\ ~Issued(p, "thirdPartyFetch")
              /\ \A op \in SocketOps : ~Issued(p, op)
              /\ socket[p] = "none"
        /\ Issued(p, "thirdPartyFetch") => whoisServer[p].kind = "host"
        /\ Issued(p, "socket.connect") =>
              /\ After(p, "thirdPartyFetch", "socket.connect")
              /\ Answered(p, "thirdParty")
              /\ AnswerOf(p, "thirdParty").kind \in {"reject", "empty"}
        /\ (Answered(p, "thirdParty") /\ AnswerOf(p, "thirdParty").kind = "text") =>
              /\ \A op \in SocketOps : ~Issued(p, op)
              /\ socket[p] = "none"
              /\ pc[p] \in {"parser", "done"}
        /\ (Answered(p, "thirdParty") /\ AnswerOf(p, "thirdParty").kind # "text") =>
              Issued(p, "socket.connect")
        /\ After(p, "socket.connect", "socket.write")
        /\ After(p, "socket.write", "socket.readAll")
        /\ After(p, "socket.readAll", "socket.end")
        /\ \A op \in LegacyOps : Times(p, op) <= 1

\* the third-party fetch failed, the socket was then opened, written, read and
\* ended, once each, and the reply it gave was extracted
C21_Witness ==
    \E p \in Lookups :
        /\ api[p] = "port43" /\ Returned(p)
        /\ calls[p] = <<"thirdPartyFetch", "socket.connect", "socket.write",
                        "socket.readAll", "socket.end">>
        /\ AnswerOf(p, "thirdParty").kind = "reject"
        /\ socket[p] = "ended"
        /\ response[p].found

\* the identifier types rule (a) knows
KnownIdTypes ==
    {"PANDI Registrar ID", "IANA Registrar ID", "IANA RegistrarID", "Registry Identifier"}

\* the identifiers of a public-identifier field, given as a list or as one object
KnownIds(list) ==
    IF list.form \in {"array", "object"}
    THEN {list.ids[i].identifier : i \in {j \in 1..Len(list.ids) :
                                              /\ list.ids[j].type \in KnownIdTypes
                                              /\ list.ids[j].identifier # ""}}
    ELSE {}

\* the rule the precedence (a), (b), (c), (d) gives a registrar-role entity
RuleFor(ent) ==
    IF KnownIds(ent.publicIds) \cup KnownIds(ent.publicIDs) # {} THEN "a"
    ELSE IF ent.vcardArray.present /\ ent.vcardArray.marker THEN "b"
    ELSE IF ent.vcardArray.present /\ ent.vcardArray.fn # "" THEN "c"
    ELSE IF ent.handle # "" THEN "d"
    ELSE "none"

\* the candidate c is what the rule makes of ent
MadeBy(c, ent, rule) ==
    CASE rule = "a" -> c.id \in KnownIds(ent.publicIds) \cup KnownIds(ent.publicIDs)
      [] rule = "b" -> c.name = ent.vcardArray.pos1
      [] rule = "c" -> c.name \in {ent.vcardArray.fn, IanaName(ent.handle)}
                       /\ c.id \notin KnownIds(ent.publicIds) \cup KnownIds(ent.publicIDs)
      [] rule = "d" -> c.name = ent.handle /\ c.email = ""
      [] OTHER -> FALSE

\* p returned the merge of a thin document that holds the one entity ent
OneEntity(p) ==
    /\ Merged(p)
    /\ thinResponse[p].entities.form = "array"
    /\ Len(thinResponse[p].entities.items) = 1
    /\ "registrar" \in thinResponse[p].entities.items[1].roles
TheEntity(p) == thinResponse[p].entities.items[1]

\* C22: for a registrar-role entity the rules are tried in the order (a) recognized
\* public identifier, (b) registrar marker in the contact card, (c) contact card
\* with an fn field, (d) non-empty handle; the first that applies gives exactly one
\* candidate and no later rule is applied; when none applies the registrar role
\* gives no candidate.
C22_RulePrecedence ==
    \A p \in Lookups : OneEntity(p) =>
        IF RuleFor(TheEntity(p)) = "none" THEN registrars[p] = <<>>
        ELSE /\ Len(registrars[p]) = 1
             /\ MadeBy(registrars[p][1], TheEntity(p), RuleFor(TheEntity(p)))

\* a public-identifier field given as one object, taken as the one-element list
AsList(list) == IF list.form = "object" THEN [list EXCEPT !.form = "array"] ELSE list
Listed(ent) ==
    [ent EXCEPT !.publicIds = AsList(ent.publicIds), !.publicIDs = AsList(ent.publicIDs)]

SingleObjectIds(ent) ==
    \/ ent.publicIds.form = "object" /\ KnownIds(ent.publicIds) # {}
    \/ ent.publicIDs.form = "object" /\ KnownIds(ent.publicIDs) # {}

\* C23: a registrar-role entity whose publicIds or publicIDs is a single object
\* {type, identifier: n} of a recognized type gives the registrar candidate of the
\* same entity with the one-element list [{type, identifier: n}]: the id n and
\* the name resolved from n.
C23_SingleObjectIds ==
    \A p \in Lookups :
        (OneEntity(p) /\ SingleObjectIds(TheEntity(p))) =>
            registrars[p] = EntityRegistrars(Listed(TheEntity(p)), thinResponse[p], FALSE)

\* the rule is applied to an entity without public identifiers
NoPublicIds(ent) == ent.publicIds.form = "absent" /\ ent.publicIDs.form = "absent"

\* C24: rule (c), a contact card with an fn field and no recognized public
\* identifier, on a handle that is present but not purely numeric gives the fn
\* value as the name and the id 0; rules (b) and (d) give the id 0 as well.
C24_UnknownIdIsZero ==
    \A p \in Lookups :
        (OneEntity(p) /\ NoPublicIds(TheEntity(p))) =>
            LET ent == TheEntity(p)
                rule == RuleFor(ent)
            IN  /\ (rule = "c" /\ ent.handle # "" /\ ~IsNumeric(ent.handle)) =>
                      /\ Len(registrars[p]) = 1
                      /\ registrars[p][1].name = ent.vcardArray.fn
                      /\ registrars[p][1].id = "0"
                /\ rule \in {"b", "d"} =>
                      /\ Len(registrars[p]) = 1
                      /\ registrars[p][1].id = "0"

\* the candidates of p that have a registration event date, and that date
Dated(p) == {i \in 1..Len(registrars[p]) : HasRegistration(registrars[p][i].events)}
DateOf(p, i) == RegistrationDate(registrars[p][i].events).t

\* the registrar of the record is the candidate i
Selected(p, i) ==
    /\ response[p].registrar.id = registrars[p][i].id
    /\ response[p].registrar.name = registrars[p][i].name

\* C25: the registrar of the record is a candidate whose registration date is the
\* latest among the candidates of both documents that have one; a candidate
\* without a registration date ranks after every candidate that has one, whatever
\* that date is, dates before the year 2000 included, and is selected only when
\* no candidate has a date.
C25_LatestRegistration ==
    \A p \in Lookups :
        (Merged(p) /\ registrars[p] # <<>>) =>
            IF Dated(p) # {}
            THEN \E i \in Dated(p) :
                    /\ Selected(p, i)
                    /\ \A j \in Dated(p) : DateOf(p, j) <= DateOf(p, i)
            ELSE \E i \in 1..Len(registrars[p]) : Selected(p, i)

\* whether the field f of a legacy record holds a value, and the value
Populated43(rec, f) ==
    CASE f = "name" -> rec.registrar.name \notin {Null, ""}
      [] f = "id" -> rec.registrar.id # "0"
      [] f = "reseller" -> rec.reseller \notin {Null, ""}
      [] f = "status" -> rec.status # <<>>
      [] f = "nameservers" -> rec.nameservers # <<>>
      [] OTHER -> rec.ts[f] # NullTs

Field43(rec, f) ==
    CASE f = "name" -> rec.registrar.name
      [] f = "id" -> rec.registrar.id
      [] f = "reseller" -> rec.reseller
      [] f = "status" -> rec.status
      [] f = "nameservers" -> rec.nameservers
      [] OTHER -> rec.ts[f]

\* the label alternatives of a field, in the order of port43.ts:128-237
Alternatives(f) ==
    CASE f = "name" -> <<"registrarUrl", "registrar", "registrarBlock", "registrarSection">>
      [] f = "id" -> <<"ianaId">>
      [] f = "reseller" -> <<"reseller">>
      [] f = "updated" -> <<"updated", "updatedBracket">>
      [] f = "created" -> <<"created", "createdRecord">>
      [] f = "expires" -> <<"expires", "expiresRecord">>
      [] f = "status" -> <<"status", "domainStatus">>
      [] f = "nameservers" -> <<"ns", "nsBracket", "nsBlock", "nsListed", "nsColon">>

\* what the alternative k makes of the reply, in the form of its field
ValueOf(text, k) ==
    CASE k = "status" -> findStatus(StatusTokens(AllLines(text, k)))
      [] k = "domainStatus" ->
            IF HasLine(text, k) THEN findStatus(FirstLine(text, k).v) ELSE <<>>
      [] k \in {"ns", "nsBracket"} -> LineHosts(AllLines(text, k))
      [] k \in {"nsBlock", "nsListed", "nsColon"} ->
            IF HasLine(text, k)
            THEN [i \in 1..Len(FirstLine(text, k).v) |-> LowerHost(FirstLine(text, k).v[i])]
            ELSE <<>>
      [] k \in {"updated", "updatedBracket", "created", "createdRecord",
                "expires", "expiresRecord"} ->
            IF HasLine(text, k) THEN LegacyDate(FirstLine(text, k).v) ELSE NullTs
      [] OTHER -> IF HasLine(text, k) THEN FirstLine(text, k).v ELSE Null

\* the alternative k populates its field: a status or nameserver alternative when it
\* appends a value, any other when its pattern matches a line
Applies(text, k) ==
    IF k \in {"status", "domainStatus", "ns", "nsBracket", "nsBlock", "nsListed", "nsColon"}
    THEN ValueOf(text, k) # <<>>
    ELSE HasLine(text, k)

\* every field that held a value before holds the same value after
Kept(before, after) ==
    \A f \in FallbackFields : Populated43(before, f) => Field43(after, f) = Field43(before, f)

\* every field that was empty before holds what the first alternative that applies
\* makes of the reply, and is as before when none applies (the registrar id is
\* then left to the resolution by name)
FirstAlternative(before, after, text) ==
    \A f \in FallbackFields :
        ~Populated43(before, f) =>
            LET alts == Alternatives(f)
                hits == {i \in 1..Len(alts) : Applies(text, alts[i])}
            IN  IF hits = {} THEN f = "id" \/ Field43(after, f) = Field43(before, f)
                ELSE Field43(after, f) =
                        ValueOf(text, alts[CHOOSE i \in hits : \A j \in hits : i <= j])

====
